---------------------------- MODULE Spec2Model ----------------------------
(***************************************************************************)
(* Dosya-Analiz: directory walk, file categorisation, tree rendering,      *)
(* folder/master report composition (src/dosya_analiz.py, src/app.py) and  *)
(* the formula-reference extraction of the spreadsheet analyser.           *)
(*                                                                         *)
(* A file or directory name is a sequence of one-character strings, so     *)
(* that startswith, lower, suffix and string comparison are computed as    *)
(* Python computes them.  A path is a sequence of names below the analysed *)
(* root; the root itself is the empty path.                                *)
(***************************************************************************)
EXTENDS Integers, Sequences, FiniteSets, TLC

VARIABLES
    fs,         \* the directory tree: path -> [kind, size, content]
    pc,         \* "env": the directory is being prepared; "run": program calls;
                \* "scan" / "scanned": the spreadsheet cell scan
    last,       \* the latest program call: operation, arguments, result
    cell,       \* spreadsheet scan: [col, row, value] of the cell being scanned
    formulas,   \* spreadsheet scan: formulas collected, <<cell_ref, value>>
    cell_dependencies  \* spreadsheet scan: <<cell_ref, refs>> in insertion order

vars == <<fs, pc, last, cell, formulas, cell_dependencies>>

(***************************************************************************)
(* Bounds of the model.                                                    *)
(***************************************************************************)
MaxEntries == 3      \* entries the environment puts below the root
MaxPathLen == 2      \* deepest path the environment creates
MaxFormulaLen == 4   \* characters of an enumerated cell value

(***************************************************************************)
(* Characters and strings.                                                 *)
(***************************************************************************)
\* The characters used, in code-point order (str comparison in Python).
AsciiChars ==
    <<"!", "$", "(", ")", "+", ".", "/",
      "0", "1", "2", "3", "4", "5", "6", "7", "8", "9", ":", "=",
      "A", "B", "C", "D", "E", "F", "G", "H", "I", "J", "K", "L", "M",
      "N", "O", "P", "Q", "R", "S", "T", "U", "V", "W", "X", "Y", "Z", "_",
      "a", "b", "c", "d", "e", "f", "g", "h", "i", "j", "k", "l", "m",
      "n", "o", "p", "q", "r", "s", "t", "u", "v", "w", "x", "y", "z">>

UpperLetters == {AsciiChars[i] : i \in 20..45}

Digits == {AsciiChars[i] : i \in 8..17}

Ord == [c \in {AsciiChars[i] : i \in 1..Len(AsciiChars)} |->
            CHOOSE i \in 1..Len(AsciiChars) : AsciiChars[i] = c]

\* str.lower() on one character: 'a'..'z' lie 27 places after 'A'..'Z' here.
LowerChar(c) == IF c \in UpperLetters THEN AsciiChars[Ord[c] + 27] ELSE c

Lower(s) == [i \in 1..Len(s) |-> LowerChar(s[i])]

\* s < t for Python strings: lexicographic by code point.
RECURSIVE StrLess(_, _)
StrLess(s, t) ==
    IF t = <<>> THEN FALSE
    ELSE IF s = <<>> THEN TRUE
    ELSE IF s[1] # t[1] THEN Ord[s[1]] < Ord[t[1]]
    ELSE StrLess(Tail(s), Tail(t))

StartsWithDot(name) == Len(name) > 0 /\ name[1] = "."

\* pathlib's PurePath.suffix: from the last dot, unless that dot is the first
\* or the last character of the name.
LastDot(name) ==
    IF \E i \in 1..Len(name) : name[i] = "."
    THEN CHOOSE i \in 1..Len(name) :
            name[i] = "." /\ \A j \in (i+1)..Len(name) : name[j] # "."
    ELSE 0

Suffix(name) ==
    LET i == LastDot(name)
    IN IF 1 < i /\ i < Len(name) THEN SubSeq(name, i, Len(name)) ELSE <<>>

Reverse(s) == [i \in 1..Len(s) |-> s[Len(s) + 1 - i]]

\* Sort keys are pairs <<integer, string>>, compared as Python compares tuples.
KeyLess(a, b) == a[1] < b[1] \/ (a[1] = b[1] /\ StrLess(a[2], b[2]))

\* sorted(..., key=...) is stable: an item goes after the items whose key is
\* not greater than its own.  Items are records [key, val].
RECURSIVE InsertByKey(_, _)
InsertByKey(s, x) ==
    IF s = <<>> THEN <<x>>
    ELSE IF KeyLess(x.key, s[1].key) THEN <<x>> \o s
    ELSE <<s[1]>> \o InsertByKey(Tail(s), x)

RECURSIVE SortedByKey(_)
SortedByKey(s) ==
    IF s = <<>> THEN <<>>
    ELSE InsertByKey(SortedByKey(SubSeq(s, 1, Len(s) - 1)), s[Len(s)])

Vals(s) == [i \in 1..Len(s) |-> s[i].val]

(***************************************************************************)
(* Constants of the program.                                               *)
(***************************************************************************)
EXCEL_EXTENSIONS ==
    {<<".","x","l","s","x">>, <<".","x","l","s","m">>, <<".","x","l","t","x">>,
     <<".","x","l","t","m">>}

EXCEL_OLD_EXTENSIONS ==
    {<<".","x","l","s">>}

WORD_EXTENSIONS ==
    {<<".","d","o","c","x">>}

PDF_EXTENSIONS ==
    {<<".","p","d","f">>}

IMAGE_EXTENSIONS ==
    {<<".","p","n","g">>, <<".","j","p","g">>, <<".","j","p","e","g">>,
     <<".","g","i","f">>, <<".","b","m","p">>, <<".","s","v","g">>, <<".","i","c","o">>,
     <<".","w","e","b","p">>, <<".","t","i","f","f">>}

CODE_EXTENSIONS ==
    {<<".","p","y">>, <<".","j","s">>, <<".","t","s">>, <<".","j","s","x">>,
     <<".","t","s","x">>, <<".","j","a","v","a">>, <<".","c","s">>, <<".","c","p","p">>,
     <<".","c">>, <<".","h">>, <<".","g","o">>, <<".","r","s">>, <<".","r","b">>,
     <<".","p","h","p">>, <<".","s","w","i","f","t">>, <<".","k","t">>,
     <<".","s","c","a","l","a">>, <<".","r">>, <<".","m">>, <<".","h","t","m","l">>,
     <<".","c","s","s">>, <<".","s","c","s","s">>, <<".","l","e","s","s">>,
     <<".","v","u","e">>, <<".","s","v","e","l","t","e">>, <<".","s","q","l">>,
     <<".","s","h">>, <<".","b","a","s","h">>, <<".","z","s","h">>, <<".","p","s","1">>,
     <<".","b","a","t">>, <<".","c","m","d">>, <<".","j","s","o","n">>,
     <<".","y","a","m","l">>, <<".","y","m","l">>, <<".","t","o","m","l">>,
     <<".","x","m","l">>, <<".","i","n","i">>, <<".","c","f","g">>, <<".","e","n","v">>,
     <<".","m","d">>, <<".","m","a","r","k","d","o","w","n">>, <<".","t","x","t">>,
     <<".","r","s","t">>, <<".","t","e","x">>,
     <<".","d","o","c","k","e","r","f","i","l","e">>,
     <<".","d","o","c","k","e","r","i","g","n","o","r","e">>,
     <<".","g","i","t","i","g","n","o","r","e">>,
     <<".","e","d","i","t","o","r","c","o","n","f","i","g">>}

ARCHIVE_EXTENSIONS ==
    {<<".","z","i","p">>, <<".","t","a","r">>, <<".","g","z">>, <<".","r","a","r">>,
     <<".","7","z">>, <<".","b","z","2">>, <<".","x","z">>}

VIDEO_EXTENSIONS ==
    {<<".","m","p","4">>, <<".","a","v","i">>, <<".","m","o","v">>, <<".","m","k","v">>,
     <<".","w","e","b","m">>}

AUDIO_EXTENSIONS ==
    {<<".","m","p","3">>, <<".","w","a","v">>, <<".","f","l","a","c">>,
     <<".","a","a","c">>, <<".","o","g","g">>}

IGNORED_DIRS ==
    {<<"_","_","p","y","c","a","c","h","e","_","_">>,
     <<"n","o","d","e","_","m","o","d","u","l","e","s">>, <<".","g","i","t">>,
     <<".","s","v","n">>, <<".","h","g">>, <<".","D","S","_","S","t","o","r","e">>,
     <<".","i","d","e","a">>, <<".","v","s","c","o","d","e">>, <<"v","e","n","v">>,
     <<"e","n","v">>, <<".","e","n","v">>, <<".","v","e","n","v">>, <<"d","i","s","t">>,
     <<"b","u","i","l","d">>, <<"_","_","M","A","C","O","S","X">>, <<".","t","o","x">>,
     <<".","m","y","p","y","_","c","a","c","h","e">>,
     <<".","p","y","t","e","s","t","_","c","a","c","h","e">>}

RAPOR_KLASOR_ADI ==
    <<"_","A","N","A","L","I","Z","_","R","A","P","O","R","L","A","R","I">>

RAPOR_DOSYA_ADI ==
    <<"_","K","L","A","S","O","R","_","R","A","P","O","R","U",".","m","d">>

KOK_KLASOR_RAPORU ==
    <<"K","O","K","_","K","L","A","S","O","R","_","R","A","P","O","R","U",".","m","d">>

RAPORU_SUFFIX == <<"_","R","A","P","O","R","U",".","m","d">>

ANA_RAPOR == <<"A","N","A","_","R","A","P","O","R",".","m","d">>

PROJE_ANALIZ_RAPORU ==
    <<"P","R","O","J","E","_","A","N","A","L","I","Z","_","R","A","P","O","R","U",
      ".","m","d">>

DefaultMaxDepth == 6

Categories == <<"excel", "word", "pdf", "code", "image", "archive", "other">>

(***************************************************************************)
(* The directory tree.  kind is "dir", "file" (a regular file), "link"     *)
(* (a dangling symbolic link: neither is_dir() nor is_file(), exists() is  *)
(* false, stat() fails) or "locked" (a directory that may not be listed:   *)
(* scandir on it raises PermissionError).                                  *)
(***************************************************************************)
Root == <<>>

NameOf(p) == p[Len(p)]

Parent(p) == SubSeq(p, 1, Len(p) - 1)

is_dir(f, p) == p = Root \/ (p \in DOMAIN f /\ f[p].kind \in {"dir", "locked"})

\* Listing the directory raises PermissionError.
ListingFails(f, d) == d \in DOMAIN f /\ f[d].kind = "locked"

is_file(f, p) == p \in DOMAIN f /\ f[p].kind = "file"

exists(f, p) == p = Root \/ (p \in DOMAIN f /\ f[p].kind # "link")

Children(f, d) == {p \in DOMAIN f : Len(p) = Len(d) + 1 /\ Parent(p) = d}

RECURSIVE SortNames(_)
SortNames(S) ==
    IF S = {} THEN <<>>
    ELSE LET m == CHOOSE p \in S :
                    \A q \in S \ {p} : StrLess(NameOf(p), NameOf(q))
         IN <<m>> \o SortNames(S \ {m})

\* The order in which the operating system lists a directory is not fixed
\* by the program: o chooses between two of the possible orders.
OsOrders == {"asc", "desc"}

iterdir(f, d, o) ==
    IF o = "asc" THEN SortNames(Children(f, d))
    ELSE Reverse(SortNames(Children(f, d)))

(***************************************************************************)
(* format_size.  The result "1.5 KB" is the record                         *)
(* [whole |-> 1, tenth |-> 5, unit |-> "KB"]; "0 B" has tenth = -1 (no     *)
(* decimal is printed) and "?" is [whole |-> -1, tenth |-> -1, unit "?"].  *)
(* A byte count is a Python int, which has no fixed width: the function is *)
(* computed on the digits of the count in base 1024, lowest digit first.   *)
(***************************************************************************)
units == <<"B", "KB", "MB", "GB", "TB">>

RECURSIVE ToDigits(_)
ToDigits(n) == IF n < 1024 THEN <<n>> ELSE <<n % 1024>> \o ToDigits(n \div 1024)

\* The while loop: after i divisions by 1024 the size is still >= 1024 when a
\* digit above position i + 1 is not zero.
RECURSIVE ScaleSteps(_, _)
ScaleSteps(digits, i) ==
    IF (\E k \in (i + 2)..Len(digits) : digits[k] # 0) /\ i < Len(units) - 1
    THEN ScaleSteps(digits, i + 1) ELSE i

\* The integer part of the size after the divisions: the value of the digits
\* that are left above the dropped ones.
RECURSIVE DigitsValue(_)
DigitsValue(digits) ==
    IF digits = <<>> THEN 0 ELSE digits[1] + 1024 * DigitsValue(Tail(digits))

\* digits * k + carry, digit by digit: the digits of the product, followed by
\* its carry out.
RECURSIVE MulDigits(_, _, _)
MulDigits(digits, k, carry) ==
    IF digits = <<>> THEN <<carry>>
    ELSE <<(digits[1] * k + carry) % 1024>>
         \o MulDigits(Tail(digits), k, (digits[1] * k + carry) \div 1024)

\* f"{size:.1f}": the exact value rounded to tenths, ties to even.  tenths is
\* ten times the integer part plus the first decimal; twice is what the first
\* decimal leaves of the fraction, doubled, its last element the carry.
RoundTenths(tenths, twice) ==
    IF twice[Len(twice)] = 1 /\ (\E k \in 1..(Len(twice) - 1) : twice[k] # 0)
    THEN tenths + 1
    ELSE IF twice[Len(twice)] = 1 THEN tenths + (tenths % 2)
    ELSE tenths

ScaledRecord(tenths, i) ==
    [whole |-> tenths \div 10, tenth |-> tenths % 10, unit |-> units[i + 1]]

ScaledBy(digits, i, times10) ==
    ScaledRecord(RoundTenths(10 * DigitsValue(SubSeq(digits, i + 1, Len(digits)))
                                + times10[i + 1],
                             MulDigits(SubSeq(times10, 1, i), 2, 0)),
                 i)

\* The size after i divisions, formatted: the i lowest digits are its fraction.
ScaledSize(digits, i) ==
    ScaledBy(digits, i, MulDigits(SubSeq(digits, 1, i), 10, 0))

\* A variant of format_size without the special case for 0.
format_size_digits_unguarded(digits) == ScaledSize(digits, ScaleSteps(digits, 0))

\* format_size on the digits of the byte count.
format_size_digits(digits) ==
    IF \A k \in 1..Len(digits) : digits[k] = 0
    THEN [whole |-> 0, tenth |-> -1, unit |-> "B"]
    ELSE ScaledSize(digits, ScaleSteps(digits, 0))

format_size(size_bytes) == format_size_digits(ToDigits(size_bytes))

UnknownSize == [whole |-> -1, tenth |-> -1, unit |-> "?"]

(***************************************************************************)
(* get_file_icon and the category of an extension.  Glyphs are named:      *)
(* chart, memo, book, frame, laptop, package, clapper, note, page.         *)
(***************************************************************************)
\* A variant of get_file_icon without the branch of the archives.
get_file_icon_no_archive(ext) ==
    IF ext \in EXCEL_EXTENSIONS \/ ext \in EXCEL_OLD_EXTENSIONS THEN "chart"
    ELSE IF ext \in WORD_EXTENSIONS THEN "memo"
    ELSE IF ext \in PDF_EXTENSIONS THEN "book"
    ELSE IF ext \in IMAGE_EXTENSIONS THEN "frame"
    ELSE IF ext \in CODE_EXTENSIONS THEN "laptop"
    ELSE IF ext \in VIDEO_EXTENSIONS THEN "clapper"
    ELSE IF ext \in AUDIO_EXTENSIONS THEN "note"
    ELSE "page"

get_file_icon(ext) ==
    IF ext \in EXCEL_EXTENSIONS \/ ext \in EXCEL_OLD_EXTENSIONS THEN "chart"
    ELSE IF ext \in WORD_EXTENSIONS THEN "memo"
    ELSE IF ext \in PDF_EXTENSIONS THEN "book"
    ELSE IF ext \in IMAGE_EXTENSIONS THEN "frame"
    ELSE IF ext \in CODE_EXTENSIONS THEN "laptop"
    ELSE IF ext \in ARCHIVE_EXTENSIONS THEN "package"
    ELSE IF ext \in VIDEO_EXTENSIONS THEN "clapper"
    ELSE IF ext \in AUDIO_EXTENSIONS THEN "note"
    ELSE "page"

\* A variant of the chain below that has no final else branch: a file whose
\* extension is in none of the sets is put in no list.
CategoryOfNoElse(ext) ==
    IF ext \in EXCEL_EXTENSIONS \/ ext \in EXCEL_OLD_EXTENSIONS THEN "excel"
    ELSE IF ext \in WORD_EXTENSIONS THEN "word"
    ELSE IF ext \in PDF_EXTENSIONS THEN "pdf"
    ELSE IF ext \in CODE_EXTENSIONS THEN "code"
    ELSE IF ext \in IMAGE_EXTENSIONS THEN "image"
    ELSE IF ext \in ARCHIVE_EXTENSIONS THEN "archive"
    ELSE "none"

\* The if/elif chain of categorize_files.
CategoryOf(ext) ==
    IF ext \in EXCEL_EXTENSIONS \/ ext \in EXCEL_OLD_EXTENSIONS THEN "excel"
    ELSE IF ext \in WORD_EXTENSIONS THEN "word"
    ELSE IF ext \in PDF_EXTENSIONS THEN "pdf"
    ELSE IF ext \in CODE_EXTENSIONS THEN "code"
    ELSE IF ext \in IMAGE_EXTENSIONS THEN "image"
    ELSE IF ext \in ARCHIVE_EXTENSIONS THEN "archive"
    ELSE "other"

\* The test of categorize_files on one directory entry.
CategorizeKeep(f, p) ==
    /\ is_file(f, p)
    /\ ~StartsWithDot(NameOf(p))
    /\ NameOf(p) # RAPOR_DOSYA_ADI

\* categorize_files: the seven lists, each in the order of iterdir().
\* The PermissionError of iterdir() is passed over: the lists stay empty.
categorize_files(f, o, folder_path) ==
    LET items == IF ListingFails(f, folder_path) THEN <<>>
                 ELSE SelectSeq(iterdir(f, folder_path, o),
                                LAMBDA p : CategorizeKeep(f, p))
    IN [c \in {Categories[i] : i \in 1..Len(Categories)} |->
            SelectSeq(items, LAMBDA p : CategoryOf(Lower(Suffix(NameOf(p)))) = c)]

\* sum(len(v) for v in categories.values())
RECURSIVE SumLens(_, _)
SumLens(categories, i) ==
    IF i > Len(Categories) THEN 0
    ELSE Len(categories[Categories[i]]) + SumLens(categories, i + 1)

\* all_files: the lists concatenated in the order of the dictionary.
RECURSIVE AllFiles(_, _)
AllFiles(categories, i) ==
    IF i > Len(Categories) THEN <<>>
    ELSE categories[Categories[i]] \o AllFiles(categories, i + 1)

(***************************************************************************)
(* build_tree.  A line is a record: kind "root" (the header), "dir",       *)
(* "file" or "trunc" (the depth-limit line); prefix is the sequence of     *)
(* four-character indents ("    " or "|   "), connector is "+-- " or       *)
(* "|-- ".                                                                 *)
(***************************************************************************)
Line(kind, prefix, connector, icon, name, size) ==
    [kind |-> kind, prefix |-> prefix, connector |-> connector,
     icon |-> icon, name |-> name, size |-> size]

\* A variant of the sort key that leaves out the directories-first part.
TreeSortKeyNameOnly(f, p) == <<0, Lower(NameOf(p))>>

\* key=lambda e: (not e.is_dir(), e.name.lower())
TreeSortKey(f, p) == <<IF is_dir(f, p) THEN 0 ELSE 1, Lower(NameOf(p))>>

\* The filter of build_tree, applied to directories and files alike.
TreeKeep(name) ==
    /\ name \notin IGNORED_DIRS
    /\ ~StartsWithDot(name)
    /\ name # RAPOR_KLASOR_ADI
    /\ name # RAPOR_DOSYA_ADI

\* sorted(listed, key=...)
SortedEntries(f, listed) ==
    Vals(SortedByKey([i \in 1..Len(listed) |->
            [key |-> TreeSortKey(f, listed[i]), val |-> listed[i]]]))

\* A variant of the entries that lists a directory whatever its permissions.
TreeEntriesOfAnyway(f, o, root_path) ==
    SelectSeq(SortedEntries(f, iterdir(f, root_path, o)),
              LAMBDA p : TreeKeep(NameOf(p)))

\* The entries of a directory, sorted and then filtered; on PermissionError
\* build_tree returns the lines it has, as for a directory without entries.
TreeEntriesOf(f, o, root_path) ==
    IF ListingFails(f, root_path) THEN <<>>
    ELSE SelectSeq(SortedEntries(f, iterdir(f, root_path, o)),
                   LAMBDA p : TreeKeep(NameOf(p)))

RECURSIVE build_tree(_, _, _, _, _, _, _)
RECURSIVE TreeLoop(_, _, _, _, _, _, _)

\* The for loop of build_tree from entry i on.
TreeLoop(f, o, entries, i, prefix, max_depth, current_depth) ==
    IF i > Len(entries) THEN <<>>
    ELSE LET entry == entries[i]
             is_entry_last == (i = Len(entries))
             connector == IF is_entry_last THEN "+-- " ELSE "|-- "
             extension == IF is_entry_last THEN "    " ELSE "|   "
             here ==
                IF is_dir(f, entry)
                THEN <<Line("dir", prefix, connector, "folder", NameOf(entry),
                            UnknownSize)>>
                     \o build_tree(f, o, entry, Append(prefix, extension),
                                   is_entry_last, max_depth, current_depth + 1)
                ELSE <<Line("file", prefix, connector,
                            get_file_icon(Lower(Suffix(NameOf(entry)))),
                            NameOf(entry),
                            IF exists(f, entry) THEN format_size(f[entry].size)
                            ELSE UnknownSize)>>
         IN here \o TreeLoop(f, o, entries, i + 1, prefix, max_depth, current_depth)

\* A variant of build_tree that has no depth cap.
build_tree_uncapped(f, o, root_path, prefix, is_last, max_depth, current_depth) ==
    (IF current_depth = 0
     THEN <<Line("root", <<>>, "", "folder", <<>>, UnknownSize)>>
     ELSE <<>>)
    \o TreeLoop(f, o, TreeEntriesOf(f, o, root_path), 1, prefix,
                max_depth, current_depth)

build_tree(f, o, root_path, prefix, is_last, max_depth, current_depth) ==
    LET head == IF current_depth = 0
                THEN <<Line("root", <<>>, "", "folder", <<>>, UnknownSize)>>
                ELSE <<>>
    IN IF current_depth >= max_depth
       THEN head \o <<Line("trunc", prefix,
                           IF is_last THEN "+-- " ELSE "|-- ", "", <<>>,
                           UnknownSize)>>
       ELSE head \o TreeLoop(f, o, TreeEntriesOf(f, o, root_path), 1, prefix,
                             max_depth, current_depth)

(***************************************************************************)
(* generate_folder_report.  The report is kept as a record of its parts:   *)
(* the summary counts, the subfolder list, the file listing and the        *)
(* sections per category.  The timestamp and the analyser output for the   *)
(* content of a document are not represented.                              *)
(***************************************************************************)
\* The filter of the subfolder list.
SubdirKeep(f, p) ==
    /\ is_dir(f, p)
    /\ NameOf(p) \notin IGNORED_DIRS
    /\ ~StartsWithDot(NameOf(p))
    /\ NameOf(p) # RAPOR_KLASOR_ADI

IsBelow(p, d) == Len(p) > Len(d) /\ SubSeq(p, 1, Len(d)) = d

\* rglob passes over a directory it may not list.
Reachable(f, d, p) ==
    \A n \in Len(d)..(Len(p) - 1) : ~ListingFails(f, SubSeq(p, 1, n))

\* sum(1 for _ in d.rglob('*') if _.is_file())
RglobFileCount(f, d) ==
    Cardinality({p \in DOMAIN f : IsBelow(p, d) /\ is_file(f, p) /\ Reachable(f, d, p)})

\* sorted(paths, key=lambda x: x.name.lower())
SortedByLowerName(paths) ==
    Vals(SortedByKey([i \in 1..Len(paths) |->
            [key |-> <<0, Lower(NameOf(paths[i]))>>, val |-> paths[i]]]))

\* The subfolder list: one line per subfolder, given in sorted order.
SubfolderLines(f, sub_sorted) ==
    [i \in 1..Len(sub_sorted) |->
        [name |-> NameOf(sub_sorted[i]),
         sub_file_count |-> RglobFileCount(f, sub_sorted[i])]]

\* The file listing: one table row per file, given in sorted order.
FileListRows(f, all_sorted) ==
    [i \in 1..Len(all_sorted) |->
        [icon |-> get_file_icon(Lower(Suffix(NameOf(all_sorted[i])))),
         name |-> NameOf(all_sorted[i]),
         suffix |-> Suffix(NameOf(all_sorted[i])),
         size |-> format_size(f[all_sorted[i]].size)]]

\* The section of one category: one entry per file, given in sorted order.
SectionEntries(f, cat_sorted) ==
    [i \in 1..Len(cat_sorted) |->
        [name |-> NameOf(cat_sorted[i]),
         size |-> format_size(f[cat_sorted[i]].size)]]

\* The headings of the sections that hold one category each, from category i
\* on: a section is written only for a category that has a file.
RECURSIVE CategoryHeadings(_, _)
CategoryHeadings(categories, i) ==
    IF i > Len(Categories) THEN <<>>
    ELSE (IF categories[Categories[i]] # <<>> THEN <<Categories[i]>> ELSE <<>>)
         \o CategoryHeadings(categories, i + 1)

\* A variant of the headings that writes the file listing table in any case.
SectionHeadingsAlwaysListing(categories, subdirs) ==
    <<"summary">>
    \o (IF subdirs # <<>> THEN <<"subfolders">> ELSE <<>>)
    \o <<"file listing">>
    \o CategoryHeadings(categories, 1)

\* The "##" headings of the report in the order they are written: the summary
\* always, the subfolder list if there is a subfolder, the file listing if
\* there is a file, then the sections of the categories.
SectionHeadings(categories, subdirs) ==
    <<"summary">>
    \o (IF subdirs # <<>> THEN <<"subfolders">> ELSE <<>>)
    \o (IF SumLens(categories, 1) > 0 THEN <<"file listing">> ELSE <<>>)
    \o CategoryHeadings(categories, 1)

\* The report composed from the category lists and the kept subfolders.
FolderReportOf(f, folder_path, categories, subdirs) ==
    [folder |-> folder_path,
     subdir_count |-> Len(subdirs),
     total_files |-> SumLens(categories, 1),
     headings |-> SectionHeadings(categories, subdirs),
     categories |-> categories,
     subdirs |-> SubfolderLines(f, SortedByLowerName(subdirs)),
     files |-> FileListRows(f, SortedByLowerName(AllFiles(categories, 1))),
     sections |-> [c \in DOMAIN categories |->
                    SectionEntries(f, SortedByLowerName(categories[c]))]]

generate_folder_report(f, o, folder_path) ==
    FolderReportOf(f, folder_path, categorize_files(f, o, folder_path),
                   SelectSeq(iterdir(f, folder_path, o),
                             LAMBDA p : SubdirKeep(f, p)))

(***************************************************************************)
(* os.walk(top), top-down, with the pruning all three callers apply to     *)
(* dirnames.  scandir classifies an entry by is_dir(); everything else is  *)
(* a "filename".                                                           *)
(***************************************************************************)
\* A variant of the pruning that lets hidden directories through.
WalkKeepNoHidden(d) ==
    /\ d \notin IGNORED_DIRS
    /\ d # RAPOR_KLASOR_ADI

\* dirnames[:] = [d for d in dirnames if ...]
WalkKeep(d) ==
    /\ d \notin IGNORED_DIRS
    /\ ~StartsWithDot(d)
    /\ d # RAPOR_KLASOR_ADI

Names(paths) == [i \in 1..Len(paths) |-> NameOf(paths[i])]

RECURSIVE os_walk(_, _, _)
RECURSIVE WalkInto(_, _, _, _)

WalkInto(f, o, kept, i) ==
    IF i > Len(kept) THEN <<>>
    ELSE os_walk(f, o, kept[i]) \o WalkInto(f, o, kept, i + 1)

\* One yield of the walk, with dirnames already pruned, then the descent
\* into the directories that were kept.
WalkYield(f, o, top, kept, nondirs) ==
    <<[dirpath |-> top, dirnames |-> Names(kept), filenames |-> Names(nondirs)]>>
    \o WalkInto(f, o, kept, 1)

WalkListed(f, o, top, listed) ==
    WalkYield(f, o, top,
              SelectSeq(listed, LAMBDA p : is_dir(f, p) /\ WalkKeep(NameOf(p))),
              SelectSeq(listed, LAMBDA p : ~is_dir(f, p)))

\* The error of scandir is passed over (onerror is None): a directory that
\* may not be listed yields nothing.
os_walk(f, o, top) ==
    IF ListingFails(f, top) THEN <<>> ELSE WalkListed(f, o, top, iterdir(f, top, o))

\* if not fname.startswith('.') and fname != RAPOR_DOSYA_ADI
RealFile(fname) == ~StartsWithDot(fname) /\ fname # RAPOR_DOSYA_ADI

\* The files the statistics loop counts, as paths, in the order it meets them.
RECURSIVE CountedFiles(_, _)
CountedFiles(walk, i) ==
    IF i > Len(walk) THEN <<>>
    ELSE LET real == SelectSeq(walk[i].filenames, RealFile)
         IN [k \in 1..Len(real) |-> Append(walk[i].dirpath, real[k])]
            \o CountedFiles(walk, i + 1)

RECURSIVE TotalDirs(_, _)
TotalDirs(walk, i) ==
    IF i > Len(walk) THEN 0 ELSE Len(walk[i].dirnames) + TotalDirs(walk, i + 1)

\* total_size += os.path.getsize(fpath), which raises (and is passed over)
\* for a dangling link.
RECURSIVE TotalSize(_, _, _)
TotalSize(f, counted, i) ==
    IF i > Len(counted) THEN 0
    ELSE (IF exists(f, counted[i]) THEN f[counted[i]].size ELSE 0)
         + TotalSize(f, counted, i + 1)

\* file_type_stats[ext] += 1: a dictionary in insertion order, here a
\* sequence of [ext, count].
BumpExt(stats, ext) ==
    IF \E k \in 1..Len(stats) : stats[k].ext = ext
    THEN [k \in 1..Len(stats) |->
            IF stats[k].ext = ext
            THEN [ext |-> ext, count |-> stats[k].count + 1]
            ELSE stats[k]]
    ELSE Append(stats, [ext |-> ext, count |-> 1])

RECURSIVE FileTypeStats(_, _, _)
FileTypeStats(counted, i, stats) ==
    IF i > Len(counted) THEN stats
    ELSE LET ext == Lower(Suffix(NameOf(counted[i])))
         IN FileTypeStats(counted, i + 1,
                          IF ext # <<>> THEN BumpExt(stats, ext) ELSE stats)

\* The whole-tree statistics loop (the same in generate_master_report and
\* analyze_folder_full).  counted_files lists what total_files counts.
StatsOfCounted(f, walk, counted) ==
    [total_files |-> Len(counted),
     total_dirs |-> TotalDirs(walk, 1),
     total_size |-> TotalSize(f, counted, 1),
     file_type_stats |-> FileTypeStats(counted, 1, <<>>),
     counted_files |-> counted]

StatsOfWalk(f, walk) == StatsOfCounted(f, walk, CountedFiles(walk, 1))

TreeStats(f, o, root_path) == StatsOfWalk(f, os_walk(f, o, root_path))

(***************************************************************************)
(* generate_master_report.                                                 *)
(***************************************************************************)
\* The conditional expression that labels an extension in the histogram.
MasterCategoryLabel(ext) ==
    IF ext \in EXCEL_EXTENSIONS \cup EXCEL_OLD_EXTENSIONS THEN "excel"
    ELSE IF ext \in WORD_EXTENSIONS THEN "word"
    ELSE IF ext \in PDF_EXTENSIONS THEN "pdf"
    ELSE IF ext \in CODE_EXTENSIONS THEN "code"
    ELSE IF ext \in IMAGE_EXTENSIONS THEN "image"
    ELSE IF ext \in ARCHIVE_EXTENSIONS THEN "archive"
    ELSE "other"

\* The string of a folder path below the root, as os.walk builds it with
\* os.path.join (the root's own string is a common prefix and is left out).
RECURSIVE PathStr(_)
PathStr(p) == IF p = <<>> THEN <<>> ELSE <<"/">> \o p[1] \o PathStr(Tail(p))

\* sorted(folder_reports, key=lambda x: x[0])
SortedByFolderPath(folder_reports) ==
    Vals(SortedByKey([i \in 1..Len(folder_reports) |->
            [key |-> <<0, PathStr(folder_reports[i].folder_path)>>,
             val |-> folder_reports[i]]]))

\* The file count of one row of the folder table.
TableFileCount(f, o, folder) ==
    IF exists(f, folder)
    THEN Len(SelectSeq(iterdir(f, folder, o),
                       LAMBDA p : /\ is_file(f, p)
                                  /\ ~StartsWithDot(NameOf(p))
                                  /\ NameOf(p) # RAPOR_DOSYA_ADI))
    ELSE 0

\* sorted(file_type_stats.items(), key=lambda x: -x[1])
SortedByCount(file_type_stats) ==
    Vals(SortedByKey([i \in 1..Len(file_type_stats) |->
            [key |-> <<0 - file_type_stats[i].count, <<>>>>,
             val |-> file_type_stats[i]]]))

\* The rows of the extension histogram.
TypeRows(by_count) ==
    [i \in 1..Len(by_count) |->
        [ext |-> by_count[i].ext, count |-> by_count[i].count,
         cat |-> MasterCategoryLabel(by_count[i].ext)]]

\* The rows of the folder table.
FolderTable(f, o, listed) ==
    [i \in 1..Len(listed) |->
        [relative |-> listed[i].folder_path,
         file_count |-> TableFileCount(f, o, listed[i].folder_path),
         report_filename |-> listed[i].report_filename]]

\* The master report composed once the statistics loop has run.
MasterReportOf(stats, f, o, root_path, folder_reports) ==
    [total_files |-> stats.total_files,
     total_dirs |-> stats.total_dirs,
     total_size |-> format_size(stats.total_size),
     total_size_bytes |-> stats.total_size,
     analyzed |-> Len(folder_reports),
     type_rows |-> TypeRows(SortedByCount(stats.file_type_stats)),
     tree |-> build_tree(f, o, root_path, <<>>, TRUE, DefaultMaxDepth, 0),
     table |-> FolderTable(f, o, SortedByFolderPath(folder_reports)),
     counted_files |-> stats.counted_files]

generate_master_report(f, o, root_path, folder_reports) ==
    MasterReportOf(TreeStats(f, o, root_path), f, o, root_path, folder_reports)

(***************************************************************************)
(* run_analysis.  open(path, 'w') creates or overwrites a regular file;    *)
(* its content is recorded as the folder whose report it holds.            *)
(***************************************************************************)
WriteFile(f, p, size, content) ==
    [q \in DOMAIN f \cup {p} |->
        IF q = p THEN [kind |-> "file", size |-> size, content |-> content]
        ELSE f[q]]

\* report_dir.mkdir(exist_ok=True)
MkdirExistOk(f, p) ==
    IF p \in DOMAIN f THEN f
    ELSE [q \in DOMAIN f \cup {p} |->
            IF q = p THEN [kind |-> "dir", size |-> 0,
                           content |-> [by |-> "dir", of |-> <<>>]]
            ELSE f[q]]

\* The folders the walk selects: those with a real file, and the root.
RECURSIVE FoldersToAnalyze(_, _, _)
FoldersToAnalyze(walk, root_path, i) ==
    IF i > Len(walk) THEN <<>>
    ELSE (IF SelectSeq(walk[i].filenames, RealFile) # <<>>
             \/ walk[i].dirpath = root_path
          THEN <<walk[i].dirpath>> ELSE <<>>)
         \o FoldersToAnalyze(walk, root_path, i + 1)

\* str(relative).replace(os.sep, '_')
RECURSIVE JoinUnderscore(_)
JoinUnderscore(p) ==
    IF Len(p) = 1 THEN p[1] ELSE p[1] \o <<"_">> \o JoinUnderscore(Tail(p))

ReportFilename(relative) ==
    IF relative = <<>> THEN KOK_KLASOR_RAPORU
    ELSE JoinUnderscore(relative) \o RAPORU_SUFFIX

\* try: open(path, 'w') ... except Exception: print the warning.  unwritable
\* are the paths on which open(path, 'w') raises.
WriteOrWarn(f, p, size, content, unwritable) ==
    IF p \in unwritable THEN f ELSE WriteFile(f, p, size, content)

Warnings(p, unwritable) == IF p \in unwritable THEN <<p>> ELSE <<>>

\* The loop over folders_to_analyze from folder i on: the report of a folder
\* is composed from the directory as it is at that moment, then written into
\* the folder and into the report folder.
RECURSIVE AnalyzeLoop(_, _, _, _, _, _, _)
AnalyzeLoop(f, o, size, unwritable, folders, i, acc) ==
    IF i > Len(folders) THEN [fs |-> f, reports |-> acc.reports,
                              folder_reports |-> acc.folder_reports,
                              warnings |-> acc.warnings]
    ELSE LET folder == folders[i]
             report_content == generate_folder_report(f, o, folder)
             body == [by |-> "report", of |-> folder]
             f1 == WriteOrWarn(f, Append(folder, RAPOR_DOSYA_ADI), size, body,
                               unwritable)
             report_filename == ReportFilename(folder)
             f2 == WriteOrWarn(f1, <<RAPOR_KLASOR_ADI, report_filename>>, size,
                               body, unwritable)
         IN AnalyzeLoop(f2, o, size, unwritable, folders, i + 1,
                [reports |-> Append(acc.reports, report_content),
                 folder_reports |-> Append(acc.folder_reports,
                        [folder_path |-> folder,
                         report_filename |-> report_filename]),
                 warnings |-> acc.warnings
                     \o Warnings(Append(folder, RAPOR_DOSYA_ADI), unwritable)
                     \o Warnings(<<RAPOR_KLASOR_ADI, report_filename>>, unwritable)])

\* The bodies appended to the master content, read back from the report folder.
RECURSIVE MasterBodies(_, _, _)
MasterBodies(f, listed, i) ==
    IF i > Len(listed) THEN <<>>
    ELSE LET master_report_file == <<RAPOR_KLASOR_ADI, listed[i].report_filename>>
         IN (IF exists(f, master_report_file)
             THEN <<f[master_report_file].content>> ELSE <<>>)
            \o MasterBodies(f, listed, i + 1)

\* run_analysis on an existing root directory; size is the size of the files
\* it writes.  The result is the directory afterwards and what was reported.
\* The content of the two master files.
MasterContent == [by |-> "master", of |-> <<>>]

\* The two writes of the master content, outside any try: the first that
\* fails ends the run by its exception.
WriteMasterFiles(f, size, unwritable) ==
    IF <<RAPOR_KLASOR_ADI, ANA_RAPOR>> \in unwritable THEN f
    ELSE WriteOrWarn(WriteFile(f, <<RAPOR_KLASOR_ADI, ANA_RAPOR>>, size,
                               MasterContent),
                     <<PROJE_ANALIZ_RAPORU>>, size, MasterContent, unwritable)

\* After the loop: the master report is composed from the directory as the
\* loop left it, then ANA_RAPOR.md and PROJE_ANALIZ_RAPORU.md are written.
WriteMaster(done, o, size, unwritable, folders_to_analyze) ==
    [fs |-> WriteMasterFiles(done.fs, size, unwritable),
     out |-> [exit |-> 0,
              raised |-> <<RAPOR_KLASOR_ADI, ANA_RAPOR>> \in unwritable
                         \/ <<PROJE_ANALIZ_RAPORU>> \in unwritable,
              warnings |-> done.warnings,
              folders_to_analyze |-> folders_to_analyze,
              reports |-> done.reports,
              folder_reports |-> done.folder_reports,
              master |-> generate_master_report(done.fs, o, Root,
                                                done.folder_reports),
              bodies |-> MasterBodies(done.fs,
                            SortedByFolderPath(done.folder_reports), 1)]]

\* The loop over the selected folders, then the master report.
AnalyzeFolders(f0, o, size, unwritable, folders_to_analyze) ==
    WriteMaster(AnalyzeLoop(f0, o, size, unwritable, folders_to_analyze, 1,
                            [reports |-> <<>>, folder_reports |-> <<>>,
                             warnings |-> <<>>]),
                o, size, unwritable, folders_to_analyze)

\* The walk that selects the folders, on the directory with its report folder.
SelectAndAnalyze(f0, o, size, unwritable) ==
    AnalyzeFolders(f0, o, size, unwritable,
                   FoldersToAnalyze(os_walk(f0, o, Root), Root, 1))

\* A variant of run_analysis that creates the report folder before it looks
\* at the target.
run_analysis_mkdir_first(target, f, o, size, unwritable) ==
    IF target # "dir"
    THEN [fs |-> MkdirExistOk(f, <<RAPOR_KLASOR_ADI>>), out |-> [exit |-> 1]]
    ELSE SelectAndAnalyze(MkdirExistOk(f, <<RAPOR_KLASOR_ADI>>), o, size,
                          unwritable)

\* target is what the target path is: "missing", a "file", or a "dir" with
\* the entries f.  A target that is no directory ends the run by sys.exit(1)
\* after the error message.
run_analysis(target, f, o, size, unwritable) ==
    IF target # "dir" THEN [fs |-> f, out |-> [exit |-> 1]]
    ELSE SelectAndAnalyze(MkdirExistOk(f, <<RAPOR_KLASOR_ADI>>), o, size,
                          unwritable)

(***************************************************************************)
(* analyze_folder_full (src/app.py): statistics, tree, the report of the   *)
(* root and the reports of the other folders that hold a real file.        *)
(***************************************************************************)
RECURSIVE FullFolderReports(_, _, _, _, _)
FullFolderReports(f, o, walk, root_path, i) ==
    IF i > Len(walk) THEN <<>>
    ELSE (IF SelectSeq(walk[i].filenames, RealFile) # <<>>
             /\ walk[i].dirpath # root_path
          THEN <<[path |-> walk[i].dirpath,
                  name |-> NameOf(walk[i].dirpath),
                  report |-> generate_folder_report(f, o, walk[i].dirpath)]>>
          ELSE <<>>)
         \o FullFolderReports(f, o, walk, root_path, i + 1)

\* The result composed once the statistics loop has run.
FullResultOf(stats, f, o, root_path) ==
    [stats |-> [total_files |-> stats.total_files,
                total_dirs |-> stats.total_dirs,
                total_size |-> format_size(stats.total_size),
                total_size_bytes |-> stats.total_size],
     file_types |-> stats.file_type_stats,
     tree |-> build_tree(f, o, root_path, <<>>, TRUE, DefaultMaxDepth, 0),
     main_report |-> generate_folder_report(f, o, root_path),
     folder_reports |-> FullFolderReports(f, o, os_walk(f, o, root_path),
                                          root_path, 1),
     counted_files |-> stats.counted_files]

analyze_folder_full(f, o, root_path) ==
    FullResultOf(TreeStats(f, o, root_path), f, o, root_path)

(***************************************************************************)
(* The formula scan of analyze_excel: a cell whose value is a string that  *)
(* starts with '=' is a formula; its references are                        *)
(*   re.findall(r"[A-Z]+[0-9]+(?::[A-Z]+[0-9]+)?", cell.value).            *)
(***************************************************************************)
\* The index after the longest run of characters of class C that starts at i.
RECURSIVE RunEnd(_, _, _)
RunEnd(s, i, C) == IF i <= Len(s) /\ s[i] \in C THEN RunEnd(s, i + 1, C) ELSE i

\* [A-Z]+[0-9]+ at position i: the index after the match, or 0 if none.  Both
\* runs are greedy; giving back characters cannot help, because the character
\* after a shortened run is of the same class.
MatchRef(s, i) ==
    LET j == RunEnd(s, i, UpperLetters)
        k == RunEnd(s, j, Digits)
    IN IF j > i /\ k > j THEN k ELSE 0

\* The whole pattern at position i, with the optional range part.
MatchAt(s, i) ==
    LET e == MatchRef(s, i)
    IN IF e = 0 THEN 0
       ELSE IF e <= Len(s) /\ s[e] = ":" /\ MatchRef(s, e + 1) # 0
            THEN MatchRef(s, e + 1)
       ELSE e

\* re.findall: leftmost matches, not overlapping, scanning from position i.
RECURSIVE FindAll(_, _)
FindAll(s, i) ==
    IF i > Len(s) THEN <<>>
    ELSE LET e == MatchAt(s, i)
         IN IF e = 0 THEN FindAll(s, i + 1)
            ELSE <<SubSeq(s, i, e - 1)>> \o FindAll(s, e)

ExtractRefs(value) == FindAll(value, 1)

\* openpyxl's get_column_letter: 1 -> A, 26 -> Z, 27 -> AA.
RECURSIVE get_column_letter(_)
get_column_letter(col) ==
    IF col <= 26 THEN <<AsciiChars[19 + col]>>
    ELSE get_column_letter((col - 1) \div 26) \o <<AsciiChars[20 + ((col - 1) % 26)]>>

\* str(n) for n >= 0.
RECURSIVE DecStr(_)
DecStr(n) ==
    IF n < 10 THEN <<AsciiChars[8 + n]>>
    ELSE DecStr(n \div 10) \o <<AsciiChars[8 + (n % 10)]>>

CellRef(c) == get_column_letter(c.col) \o DecStr(c.row)

\* cell_dependencies[cell_ref].append(ref) for every ref: the key appears
\* only when there is at least one ref.
AddDependencies(deps, cell_ref, refs) ==
    IF refs = <<>> THEN deps
    ELSE IF \E k \in 1..Len(deps) : deps[k].cell = cell_ref
    THEN [k \in 1..Len(deps) |->
            IF deps[k].cell = cell_ref
            THEN [cell |-> cell_ref, refs |-> deps[k].refs \o refs]
            ELSE deps[k]]
    ELSE Append(deps, [cell |-> cell_ref, refs |-> refs])

IsFormula(value) == value # <<>> /\ value[1] = "="

(***************************************************************************)
(* The environment: the names, kinds and sizes of the entries of the       *)
(* analysed directory.                                                     *)
(***************************************************************************)
UserContent == [by |-> "user", of |-> <<>>]

EnvChoices ==
    {[name |-> <<"a",".","t","x","t">>, kind |-> "file"],
     [name |-> <<"a",".","t","x","t">>, kind |-> "link"],
     [name |-> <<"A",".","t","x","t">>, kind |-> "file"],
     [name |-> <<"b","u","i","l","d">>, kind |-> "file"],
     [name |-> <<"b","u","i","l","d">>, kind |-> "dir"],
     [name |-> <<".","c","f","g">>, kind |-> "file"],
     [name |-> <<".","c","f","g">>, kind |-> "dir"],
     [name |-> <<"s","u","b">>, kind |-> "dir"]}

FileSizes == {0, 1536}

TreeDepths == {1, DefaultMaxDepth}

Dirs(f) == {d \in DOMAIN f \cup {Root} : is_dir(f, d)}

NoCall == [op |-> "none", arg |-> <<>>, out |-> <<>>]

NoCell == [col |-> 0, row |-> 0, value |-> <<>>]

CreateEntry ==
    /\ pc = "env"
    /\ Cardinality(DOMAIN fs) < MaxEntries
    /\ \E parent \in {d \in Dirs(fs) : Len(d) < MaxPathLen}, c \in EnvChoices,
          size \in FileSizes :
            LET p == Append(parent, c.name)
            IN /\ p \notin DOMAIN fs
               /\ c.kind # "file" => size = 0
               /\ fs' = [q \in DOMAIN fs \cup {p} |->
                            IF q = p THEN [kind |-> c.kind, size |-> size,
                                           content |-> UserContent]
                            ELSE fs[q]]
    /\ UNCHANGED <<pc, last, cell, formulas, cell_dependencies>>

\* The directory is handed to the program; from here on only the program
\* changes it.
Start ==
    /\ pc = "env"
    /\ pc' = "run"
    /\ UNCHANGED <<fs, last, cell, formulas, cell_dependencies>>

(***************************************************************************)
(* The program's entry points.                                             *)
(***************************************************************************)
BuildTree ==
    /\ pc = "run"
    /\ \E o \in OsOrders, max_depth \in TreeDepths :
          last' = [op |-> "build_tree", arg |-> max_depth,
                   out |-> build_tree(fs, o, Root, <<>>, TRUE, max_depth, 0)]
    /\ UNCHANGED <<fs, pc, cell, formulas, cell_dependencies>>

CategorizeFiles ==
    /\ pc = "run"
    /\ \E o \in OsOrders, folder \in Dirs(fs) :
          last' = [op |-> "categorize_files", arg |-> folder,
                   out |-> categorize_files(fs, o, folder)]
    /\ UNCHANGED <<fs, pc, cell, formulas, cell_dependencies>>

RunAnalysis ==
    /\ pc = "run"
    /\ \E o \in OsOrders, size \in FileSizes \ {0} :
          \E r \in {run_analysis("dir", fs, o, size, {})} :
             /\ fs' = r.fs
             /\ last' = [op |-> "run_analysis", arg |-> <<>>, out |-> r.out]
    /\ UNCHANGED <<pc, cell, formulas, cell_dependencies>>

AnalyzeFolderFull ==
    /\ pc = "run"
    /\ \E o \in OsOrders :
          last' = [op |-> "analyze_folder_full", arg |-> <<>>,
                   out |-> analyze_folder_full(fs, o, Root)]
    /\ UNCHANGED <<fs, pc, cell, formulas, cell_dependencies>>

Init ==
    /\ fs = <<>>
    /\ pc = "env"
    /\ last = NoCall
    /\ cell = NoCell
    /\ formulas = <<>>
    /\ cell_dependencies = <<>>

Next ==
    \/ CreateEntry
    \/ Start
    \/ BuildTree
    \/ CategorizeFiles
    \/ RunAnalysis
    \/ AnalyzeFolderFull

Spec == Init /\ [][Next]_vars

(***************************************************************************)
(* The cell scan as a specification of its own: one cell, whose value is   *)
(* any string of at most MaxFormulaLen characters of CellChars or one of   *)
(* the sample formulas.                                                    *)
(***************************************************************************)
CellChars == {"=", "A", "1", ":", "$", "(", "!"}

BoundedValues == UNION {[1..k -> CellChars] : k \in 0..MaxFormulaLen}

\* =SUM(A1:A10)+B2
SampleSum ==
    <<"=","S","U","M","(","A","1",":","A","1","0",")","+","B","2">>

\* =$A$1+B2
SampleAbsolute == <<"=","$","A","$","1","+","B","2">>

\* =LOG10(B2)
SampleLog10 == <<"=","L","O","G","1","0","(","B","2",")">>

SheetNames == {<<"D","a","t","a">>, <<"Q","1">>, <<"D","A","T","A","2">>}

SampleRefs == {<<"A","1">>, <<"B","2">>, <<"A","1",":","B","2">>}

\* =S!R+1
Qualified(S, R) == <<"=">> \o S \o <<"!">> \o R \o <<"+","1">>

SampleValues ==
    {SampleSum, SampleAbsolute, SampleLog10}
    \cup {Qualified(S, R) : S \in SheetNames, R \in SampleRefs}

CellPositions == {[col |-> 2, row |-> 2], [col |-> 28, row |-> 10]}

ScanInit ==
    /\ fs = <<>>
    /\ pc = "scan"
    /\ last = NoCall
    /\ \E pos \in CellPositions, value \in BoundedValues \cup SampleValues :
          cell = [col |-> pos.col, row |-> pos.row, value |-> value]
    /\ formulas = <<>>
    /\ cell_dependencies = <<>>

\* The body of the scan loop for one cell.
ScanCell ==
    /\ pc = "scan"
    /\ pc' = "scanned"
    /\ IF IsFormula(cell.value)
       THEN /\ formulas' = Append(formulas, <<CellRef(cell), cell.value>>)
            /\ cell_dependencies' =
                  AddDependencies(cell_dependencies, CellRef(cell),
                                  ExtractRefs(cell.value))
       ELSE UNCHANGED <<formulas, cell_dependencies>>
    /\ UNCHANGED <<fs, last, cell>>

ScanNext == ScanCell

ScanSpec == ScanInit /\ [][ScanNext]_vars

(***************************************************************************)
(* analyze_word: the heading outline.  A paragraph is [style, text]; the   *)
(* style is the name of the paragraph style, <<>> when there is none.      *)
(***************************************************************************)
MaxParagraphs == 2   \* paragraphs of an enumerated document

HeadingWord == <<"H","e","a","d","i","n","g">>

\* s.startswith(pre)
StartsWith(s, pre) == Len(s) >= Len(pre) /\ SubSeq(s, 1, Len(pre)) = pre

\* s.replace(pat, ''): every occurrence, left to right, not overlapping.
RECURSIVE RemoveAll(_, _)
RemoveAll(s, pat) ==
    IF s = <<>> THEN <<>>
    ELSE IF StartsWith(s, pat) THEN RemoveAll(SubSeq(s, Len(pat) + 1, Len(s)), pat)
    ELSE <<s[1]>> \o RemoveAll(Tail(s), pat)

\* str.strip() for the one whitespace character used here.
RECURSIVE LStrip(_)
LStrip(s) == IF s # <<>> /\ s[1] = " " THEN LStrip(Tail(s)) ELSE s

Strip(s) == Reverse(LStrip(Reverse(LStrip(s))))

\* The digits of an int() literal: decimal digits, single underscores allowed
\* between two digits.
DigitGroups(s) ==
    /\ s # <<>>
    /\ \A i \in 1..Len(s) :
          \/ s[i] \in Digits
          \/ /\ s[i] = "_"
             /\ 1 < i /\ i < Len(s)
             /\ s[i - 1] \in Digits /\ s[i + 1] \in Digits

RECURSIVE DecValue(_, _)
DecValue(s, acc) ==
    IF s = <<>> THEN acc
    ELSE DecValue(Tail(s), IF s[1] = "_" THEN acc ELSE 10 * acc + (Ord[s[1]] - 8))

\* int(s): surrounding whitespace is dropped, then an optional sign and the
\* digits.  ok is FALSE where int() raises ValueError.
PyInt(s) ==
    LET t == Strip(s)
        signed == t # <<>> /\ t[1] \in {"+", "-"}
        body == IF signed THEN Tail(t) ELSE t
    IN IF DigitGroups(body)
       THEN [ok |-> TRUE,
             value |-> IF signed /\ t[1] = "-" THEN 0 - DecValue(body, 0)
                       ELSE DecValue(body, 0)]
       ELSE [ok |-> FALSE, value |-> 0]

\* level = name.replace('Heading', '').replace(' ', ''); int(level), else 1.
HeadingLevel(name) ==
    LET level == PyInt(RemoveAll(RemoveAll(name, HeadingWord), <<" ">>))
    IN IF level.ok THEN level.value ELSE 1

\* The loop over the paragraphs that collects (level, text).
RECURSIVE Headings(_)
Headings(paragraphs) ==
    IF paragraphs = <<>> THEN <<>>
    ELSE LET p == paragraphs[1]
         IN (IF /\ p.style # <<>>
                /\ StartsWith(p.style, HeadingWord)
                /\ Strip(p.text) # <<>>
             THEN <<[level |-> HeadingLevel(p.style), text |-> Strip(p.text)]>>
             ELSE <<>>)
            \o Headings(Tail(paragraphs))

\* The documents analysed: style names and texts of their paragraphs.
SampleStyles ==
    {<<>>,
     <<"N","o","r","m","a","l">>,
     <<"h","e","a","d","i","n","g"," ","1">>,
     <<"H","e","a","d","i","n","g">>,
     <<"H","e","a","d","i","n","g"," ","1">>,
     <<"H","e","a","d","i","n","g"," ","2">>,
     <<"H","e","a","d","i","n","g"," ","1","0">>,
     <<"H","e","a","d","i","n","g","3">>,
     <<"H","e","a","d","i","n","g"," ","2"," ","C","h","a","r">>,
     <<"H","e","a","d","i","n","g"," ","1"," ","2">>}

SampleTexts == {<<>>, <<" ">>, <<"I","n","t","r","o">>, <<" ","A"," ">>}

SampleParagraphs == [style : SampleStyles, text : SampleTexts]

SampleDocuments ==
    UNION {[1..n -> SampleParagraphs] : n \in 1..MaxParagraphs}

WordInit ==
    /\ fs = <<>>
    /\ pc = "word"
    /\ last = NoCall
    /\ cell = NoCell
    /\ formulas = <<>>
    /\ cell_dependencies = <<>>

\* analyze_word on one document, as far as the heading outline goes.
AnalyzeWord ==
    /\ pc = "word"
    /\ \E paragraphs \in SampleDocuments :
          last' = [op |-> "analyze_word", arg |-> paragraphs,
                   out |-> Headings(paragraphs)]
    /\ UNCHANGED <<fs, pc, cell, formulas, cell_dependencies>>

WordNext == AnalyzeWord

WordSpec == WordInit /\ [][WordNext]_vars

(***************************************************************************)
(* format_size on its own: one call on a byte count.  The sample counts    *)
(* reach every unit and the counts of 1024 TB and more, and stay below     *)
(* 2^53, where the conversion to float is exact.                           *)
(***************************************************************************)
SizeDigits == {0, 1, 1023}

SampleCounts ==
    {d \in UNION {[1..n -> SizeDigits] : n \in 1..5} : Len(d) = 1 \/ d[Len(d)] # 0}
    \cup {Append(d, 1) : d \in [1..5 -> SizeDigits]}
    \cup {ToDigits(1280), ToDigits(1536), ToDigits(1792)}

FormatInit ==
    /\ fs = <<>>
    /\ pc = "format"
    /\ last = NoCall
    /\ cell = NoCell
    /\ formulas = <<>>
    /\ cell_dependencies = <<>>

FormatSize ==
    /\ pc = "format"
    /\ pc' = "formatted"
    /\ \E size_bytes \in SampleCounts :
          last' = [op |-> "format_size", arg |-> size_bytes,
                   out |-> format_size_digits(size_bytes)]
    /\ UNCHANGED <<fs, cell, formulas, cell_dependencies>>

FormatNext == FormatSize

FormatSpec == FormatInit /\ [][FormatNext]_vars


(***************************************************************************)
(* The analysers as generate_folder_report sees them.  flags are the       *)
(* capability flags set at import; the condition of a document is "ok",    *)
(* "unopenable" (the library fails to open it), "unparsable" (a step after *)
(* opening fails) or "nostat" (stat() on it fails once categorize_files    *)
(* has listed it, e.g. the file has been removed meanwhile).  An analyser  *)
(* returns a placeholder, an inline error line or the analysis, or leaves  *)
(* by an exception.                                                        *)
(***************************************************************************)
MaxDocuments == 3    \* documents in the folder that is reported

LibraryFlags == {"HAS_OPENPYXL", "HAS_XLRD", "HAS_DOCX", "HAS_PDF"}

Conditions == {"ok", "unopenable", "unparsable", "nostat"}

Placeholder(library) == [kind |-> "placeholder", detail |-> library, opened |-> FALSE]

InlineError(line) == [kind |-> "error", detail |-> line, opened |-> TRUE]

Analysis == [kind |-> "analysis", detail |-> "", opened |-> TRUE]

Raised == [kind |-> "raised", detail |-> "", opened |-> TRUE]

\* .xls: everything after the flag test is inside one try.
analyze_excel_xls(flags, condition) ==
    IF ~flags["HAS_XLRD"] THEN Placeholder("xlrd")
    ELSE IF condition \in {"unopenable", "unparsable"}
         THEN InlineError(".xls dosyasi okunamadi")
    ELSE Analysis

\* A variant of analyze_excel that tests HAS_OPENPYXL before it looks at the
\* extension.
analyze_excel_flag_first(ext, flags, condition) ==
    IF ~flags["HAS_OPENPYXL"] THEN Placeholder("openpyxl")
    ELSE IF ext \in EXCEL_OLD_EXTENSIONS THEN analyze_excel_xls(flags, condition)
    ELSE IF condition = "unopenable" THEN InlineError("Dosya acilamadi")
    ELSE IF condition = "unparsable" THEN Raised
    ELSE Analysis

\* Only load_workbook and some of the later steps are inside a try.
analyze_excel(ext, flags, condition) ==
    IF ext \in EXCEL_OLD_EXTENSIONS THEN analyze_excel_xls(flags, condition)
    ELSE IF ~flags["HAS_OPENPYXL"] THEN Placeholder("openpyxl")
    ELSE IF condition = "unopenable" THEN InlineError("Dosya acilamadi")
    ELSE IF condition = "unparsable" THEN Raised
    ELSE Analysis

\* Only DocxDocument(filepath) and some of the later steps are inside a try.
analyze_word(flags, condition) ==
    IF ~flags["HAS_DOCX"] THEN Placeholder("python-docx")
    ELSE IF condition = "unopenable" THEN InlineError("Dosya acilamadi")
    ELSE IF condition = "unparsable" THEN Raised
    ELSE Analysis

\* Everything after the flag test is inside one try.
analyze_pdf(flags, condition) ==
    IF ~flags["HAS_PDF"] THEN Placeholder("pdfplumber")
    ELSE IF condition \in {"unopenable", "unparsable"}
         THEN InlineError("PDF okunamadi")
    ELSE Analysis

Analyzer(c, ext, flags, condition) ==
    IF c = "excel" THEN analyze_excel(ext, flags, condition)
    ELSE IF c = "word" THEN analyze_word(flags, condition)
    ELSE analyze_pdf(flags, condition)

\* try: analysis = analyze_...(...) except Exception as e: the error line.
CallerErrorLine ==
    [excel |-> "Excel analiz hatasi", word |-> "Word analiz hatasi",
     pdf |-> "PDF analiz hatasi"]

CaughtAnalysis(c, analysis) ==
    IF analysis.kind = "raised" THEN InlineError(CallerErrorLine[c])
    ELSE analysis

\* The section of a document category: per file its name and what the
\* analyser gave, in sorted order.
DocumentSection(c, cat_sorted, flags, condition) ==
    [i \in 1..Len(cat_sorted) |->
        [name |-> NameOf(cat_sorted[i]),
         analysis |-> CaughtAnalysis(c,
                         Analyzer(c, Lower(Suffix(NameOf(cat_sorted[i]))), flags,
                                  condition[cat_sorted[i]]))]]

DocumentCategories == {"excel", "word", "pdf"}

\* The report with the analyses, or the exception: the size of a file is read
\* outside any try in the section of its category, whatever the category.
AnalysedReportOf(report, flags, condition) ==
    IF \E i \in 1..Len(report.files) :
          \E p \in DOMAIN condition :
              NameOf(p) = report.files[i].name /\ condition[p] = "nostat"
    THEN [raised |-> TRUE]
    ELSE [raised |-> FALSE,
          report |-> report,
          analyses |-> [c \in DocumentCategories |->
                          DocumentSection(c, SortedByLowerName(report.categories[c]),
                                          flags, condition)]]

\* generate_folder_report on the root folder, with the analyses.
generate_folder_report_analysed(f, o, flags, condition) ==
    AnalysedReportOf(generate_folder_report(f, o, Root), flags, condition)

(***************************************************************************)
(* The report of one folder of documents on its own.                       *)
(***************************************************************************)
SampleDocumentNames ==
    {<<"a",".","x","l","s","x">>, <<"b",".","x","l","s">>,
     <<"c",".","d","o","c","x">>, <<"d",".","p","d","f">>,
     <<"e",".","p","d","f">>}

DocumentFolder(names) ==
    [p \in {<<n>> : n \in names} |->
        [kind |-> "file", size |-> 1536, content |-> UserContent]]

DocInit ==
    /\ fs = <<>>
    /\ pc = "documents"
    /\ last = NoCall
    /\ cell = NoCell
    /\ formulas = <<>>
    /\ cell_dependencies = <<>>

GenerateFolderReport ==
    /\ pc = "documents"
    /\ pc' = "reported"
    /\ \E names \in {N \in SUBSET SampleDocumentNames : Cardinality(N) <= MaxDocuments},
          o \in OsOrders, flags \in [LibraryFlags -> BOOLEAN] :
          \E condition \in [DOMAIN DocumentFolder(names) -> Conditions] :
              /\ fs' = DocumentFolder(names)
              /\ last' = [op |-> "generate_folder_report",
                          arg |-> [o |-> o, flags |-> flags, condition |-> condition],
                          out |-> generate_folder_report_analysed(
                                      DocumentFolder(names), o, flags, condition)]
    /\ UNCHANGED <<cell, formulas, cell_dependencies>>

DocNext == GenerateFolderReport

DocSpec == DocInit /\ [][DocNext]_vars


(***************************************************************************)
(* analyze_pdf once pdfplumber is there.  A page is a record of what its   *)
(* extraction gives: words (of its text), tables, images, and fails when   *)
(* extract_text, extract_tables or images raises on it.  The report is the *)
(* sequence of its lines; metadata lines and the cells of a sampled table  *)
(* are not represented.                                                    *)
(***************************************************************************)
MaxPages == 3        \* pages of an enumerated PDF

MaxLongPages == 52   \* pages of the longest sample PDF

DetailPages == 50

ShownPages == 10

TablePages == 5

TablesPerPage == 3

Least(a, b) == IF a < b THEN a ELSE b

\* The first of the pages 1..n whose extraction fails, 0 if there is none.
RECURSIVE FirstFailing(_, _, _)
FirstFailing(pages, i, n) ==
    IF i > n THEN 0
    ELSE IF pages[i].fails THEN i
    ELSE FirstFailing(pages, i + 1, n)

\* The detail lines of the pages 1..n.
PageDetailLines(pages, n) ==
    [i \in 1..n |-> [kind |-> "page", page |-> i, words |-> pages[i].words,
                     tables |-> pages[i].tables, images |-> pages[i].images]]

RECURSIVE SumWords(_, _)
SumWords(pages, n) == IF n = 0 THEN 0 ELSE pages[n].words + SumWords(pages, n - 1)

RECURSIVE SumTables(_, _)
SumTables(pages, n) == IF n = 0 THEN 0 ELSE pages[n].tables + SumTables(pages, n - 1)

RECURSIVE SumImages(_, _)
SumImages(pages, n) == IF n = 0 THEN 0 ELSE pages[n].images + SumImages(pages, n - 1)

\* The headings of the sampled tables: the first tables of the first pages.
RECURSIVE TableSamples(_, _, _)
TableSamples(pages, i, n) ==
    IF i > n THEN <<>>
    ELSE [j \in 1..Least(pages[i].tables, TablesPerPage) |->
            [kind |-> "table", page |-> i, table |-> j]]
         \o TableSamples(pages, i + 1, n)

\* The lines after the page loop, n the number of pages the loop has read.
PdfTotals(pages, n) ==
    <<[kind |-> "total_tables", count |-> SumTables(pages, n)],
      [kind |-> "total_images", count |-> SumImages(pages, n)]>>
    \o TableSamples(pages, 1, Least(Len(pages), TablePages))
    \o <<[kind |-> "total_words", count |-> SumWords(pages, n)]>>
    \o (IF SumWords(pages, n) > 0 THEN <<[kind |-> "preview"]>> ELSE <<>>)

\* The report when the first failing page is k: the exception leaves the page
\* loop and is caught by the one except clause at the end of the function.
PdfReportOf(pages, k) ==
    <<[kind |-> "page_count", count |-> Len(pages)]>>
    \o (IF k > 0
        THEN PageDetailLines(pages, Least(k - 1, ShownPages))
             \o <<[kind |-> "error"]>>
        ELSE PageDetailLines(pages, Least(Len(pages), ShownPages))
             \o PdfTotals(pages, Least(Len(pages), DetailPages)))

analyze_pdf_pages(pages) ==
    PdfReportOf(pages, FirstFailing(pages, 1, Least(Len(pages), DetailPages)))

SamplePages ==
    [words : {0, 2}, tables : {0, 1}, images : {0, 1}, fails : BOOLEAN]

PdfInit ==
    /\ fs = <<>>
    /\ pc = "pdf"
    /\ last = NoCall
    /\ cell = NoCell
    /\ formulas = <<>>
    /\ cell_dependencies = <<>>

AnalyzePdf ==
    /\ pc = "pdf"
    /\ pc' = "analysed"
    /\ \E pages \in UNION {[1..n -> SamplePages] : n \in 0..MaxPages} :
          last' = [op |-> "analyze_pdf", arg |-> pages,
                   out |-> analyze_pdf_pages(pages)]
    /\ UNCHANGED <<fs, cell, formulas, cell_dependencies>>

\* A PDF of n pages, two sample pages in turn, on one of which (bad, if it
\* is a page of the PDF) the extraction fails.
LongPdf(n, odd, even, bad) ==
    [i \in 1..n |-> [IF i % 2 = 1 THEN odd ELSE even EXCEPT !.fails = (i = bad)]]

AnalyzeLongPdf ==
    /\ pc = "pdf"
    /\ pc' = "analysed"
    /\ \E n \in {ShownPages - 1, ShownPages, ShownPages + 1} \cup (DetailPages - 1)..MaxLongPages,
          odd \in SamplePages, even \in SamplePages,
          bad \in {0, ShownPages + 1, DetailPages + 1} :
          \E pages \in {LongPdf(n, odd, even, bad)} :
              last' = [op |-> "analyze_pdf", arg |-> pages,
                       out |-> analyze_pdf_pages(pages)]
    /\ UNCHANGED <<fs, cell, formulas, cell_dependencies>>

PdfNext == AnalyzePdf \/ AnalyzeLongPdf

PdfSpec == PdfInit /\ [][PdfNext]_vars


(***************************************************************************)
(* One run of run_analysis on a target of its own: a path that is missing, *)
(* a file, or a directory of sample folders, with writes that may fail.    *)
(***************************************************************************)
MaxWriteFaults == 1  \* paths on which open(path, 'w') fails in one run

SampleFile == <<"f",".","t","x","t">>

\* The files of the sample directories: one in the root, one in a/b, one in
\* a_b and one in KOK_KLASOR.
SampleFilePaths ==
    {<<SampleFile>>,
     <<<<"a">>, <<"b">>, SampleFile>>,
     <<<<"a","_","b">>, SampleFile>>,
     <<<<"K","O","K","_","K","L","A","S","O","R">>, SampleFile>>}

\* The directory that holds the given files and the folders on their paths.
TargetTree(files) ==
    [p \in files \cup UNION {{SubSeq(q, 1, n) : n \in 1..(Len(q) - 1)} : q \in files} |->
        IF p \in files THEN [kind |-> "file", size |-> 1536, content |-> UserContent]
        ELSE [kind |-> "dir", size |-> 0, content |-> [by |-> "dir", of |-> <<>>]]]

\* The paths a run on the directory opens for writing.
WrittenPaths(f) ==
    {Append(d, RAPOR_DOSYA_ADI) : d \in Dirs(f)}
    \cup {<<RAPOR_KLASOR_ADI, ReportFilename(d)>> : d \in Dirs(f)}
    \cup {<<RAPOR_KLASOR_ADI, ANA_RAPOR>>, <<PROJE_ANALIZ_RAPORU>>}

TargetInit ==
    /\ fs = <<>>
    /\ pc = "target"
    /\ last = NoCall
    /\ cell = NoCell
    /\ formulas = <<>>
    /\ cell_dependencies = <<>>

\* run_analysis(target_path) on a directory.
RunOnDirectory ==
    /\ pc = "target"
    /\ pc' = "finished"
    /\ \E files \in SUBSET SampleFilePaths, o \in OsOrders :
          \E unwritable \in {W \in SUBSET WrittenPaths(TargetTree(files)) :
                                Cardinality(W) <= MaxWriteFaults} :
             \E r \in {run_analysis("dir", TargetTree(files), o, 1536, unwritable)} :
                /\ fs' = r.fs
                /\ last' = [op |-> "run_analysis",
                            arg |-> [target |-> "dir", f |-> TargetTree(files),
                                     unwritable |-> unwritable],
                            out |-> r.out]
    /\ UNCHANGED <<cell, formulas, cell_dependencies>>

\* run_analysis(target_path) on a path that is no directory.
RunOnOther ==
    /\ pc = "target"
    /\ pc' = "finished"
    /\ \E target \in {"missing", "file"} :
          \E r \in {run_analysis(target, fs, "asc", 1536, {})} :
             /\ fs' = r.fs
             /\ last' = [op |-> "run_analysis",
                         arg |-> [target |-> target, f |-> fs, unwritable |-> {}],
                         out |-> r.out]
    /\ UNCHANGED <<cell, formulas, cell_dependencies>>

TargetNext == RunOnDirectory \/ RunOnOther

TargetSpec == TargetInit /\ [][TargetNext]_vars


(***************************************************************************)
(* The calls on directories that hold a folder "sub" which may not be      *)
(* listed, although it has entries.                                        *)
(***************************************************************************)
LockFile == <<"a",".","t","x","t">>

LockedName == <<"s","u","b">>

\* What may be there besides sub: entries inside it, a file next to it, a
\* folder sorted before it and one sorted after it.
LockOptional ==
    {<<LockedName, LockFile>>, <<LockedName, <<"i","n">>, LockFile>>, <<LockFile>>,
     <<<<"l","i","b">>, LockFile>>, <<<<"t","o","p">>, LockFile>>}

LockedTree(files, kind) ==
    [p \in {<<LockedName>>} \cup files
           \cup UNION {{SubSeq(q, 1, n) : n \in 1..(Len(q) - 1)} : q \in files} |->
        IF p \in files THEN [kind |-> "file", size |-> 1536, content |-> UserContent]
        ELSE [kind |-> IF p = <<LockedName>> THEN kind ELSE "dir", size |-> 0,
              content |-> [by |-> "dir", of |-> <<>>]]]

LockInit ==
    /\ \E files \in SUBSET LockOptional, kind \in {"dir", "locked"} :
          fs = LockedTree(files, kind)
    /\ pc = "run"
    /\ last = NoCall
    /\ cell = NoCell
    /\ formulas = <<>>
    /\ cell_dependencies = <<>>

LockNext == BuildTree \/ CategorizeFiles \/ AnalyzeFolderFull

LockSpec == LockInit /\ [][LockNext]_vars


(***************************************************************************)
(* analyze_excel: what is reported of one sheet.  A sheet is its used      *)
(* range, min_row..max_row by min_col..max_col, and a fill that gives each *)
(* cell its value; a cell outside the used range has the value None.  The  *)
(* sample sheets have no merged cells, tables, validations, charts or      *)
(* comments.  The report is a sequence of lines, each a record.            *)
(***************************************************************************)
MaxSheetRows == 11   \* rows of the longest sample sheet

MaxSheetCols == 51   \* columns of the widest sample sheet

HeaderColumns == 50

ScanMaxRows == 5000

ScanMaxCols == 100

FormulaRowsShown == 30

DependencyRowsShown == 20

SampleRowSpan == 5

SampleLastColumn == 15

SampleCellChars == 30

\* None, told apart from every string: the elements of a string are single
\* characters.
None == <<"None">>

\* range(a, b)
PyRange(a, b) == [k \in 1..(IF b > a THEN b - a ELSE 0) |-> a + k - 1]

InUsedPyRange(sheet, row, col) ==
    /\ row \in sheet.min_row..sheet.max_row
    /\ col \in sheet.min_col..sheet.max_col

\* The value openpyxl gives for the cell.  A formula cell of the fills refers
\* to the cell on its right, so that no two formulas are the same.
SheetValue(sheet, row, col) ==
    LET here == CellRef([col |-> col, row |-> row])
        refers == <<"=">> \o CellRef([col |-> col + 1, row |-> row])
        number == <<"=","1","+","1">>
    IN IF ~InUsedPyRange(sheet, row, col) THEN None
       ELSE CASE sheet.fill = "formulas" -> refers
              [] sheet.fill = "numbers" -> number
              [] sheet.fill = "text" -> here
              [] sheet.fill = "corners" ->
                    IF <<row, col>> \in {<<sheet.min_row, sheet.min_col>>,
                                        <<sheet.max_row, sheet.max_col>>}
                    THEN here ELSE None
              [] OTHER ->
                    IF (row + col) % 2 = 0 THEN refers
                    ELSE IF col % 2 = 0 THEN number ELSE here

\* The header cells: range(min_col, min(max_col + 1, 50)) of the first row,
\* those that are not None.
Headers(sheet) ==
    LET cols == PyRange(sheet.min_col, Least(sheet.max_col + 1, HeaderColumns))
    IN SelectSeq([k \in DOMAIN cols |-> SheetValue(sheet, sheet.min_row, cols[k])],
                 LAMBDA v : v # None)

HeaderLine(headers) ==
    IF headers # <<>> THEN <<[kind |-> "headers", headers |-> headers]>> ELSE <<>>

\* The cells iter_rows yields for the scan, row by row and left to right.
ScannedCells(sheet) ==
    LET rows == PyRange(sheet.min_row, Least(sheet.max_row, ScanMaxRows) + 1)
        cols == PyRange(sheet.min_col, Least(sheet.max_col, ScanMaxCols) + 1)
    IN [k \in 1..(Len(rows) * Len(cols)) |->
           [row |-> rows[((k - 1) \div Len(cols)) + 1],
            col |-> cols[((k - 1) % Len(cols)) + 1],
            value |-> SheetValue(sheet, rows[((k - 1) \div Len(cols)) + 1],
                                 cols[((k - 1) % Len(cols)) + 1])]]

\* The scan loop over the cells: formulas is appended to for every formula
\* cell.
SheetFormulas(cells) ==
    LET found == SelectSeq(cells, LAMBDA c : IsFormula(c.value))
    IN [k \in DOMAIN found |-> <<CellRef(found[k]), found[k].value>>]

\* cell_dependencies gets a key for every formula in which the pattern
\* matches; a sheet has every cell reference once, so each key is new.
SheetDependencies(fms) ==
    LET found == SelectSeq(fms, LAMBDA fm : ExtractRefs(fm[2]) # <<>>)
    IN [k \in DOMAIN found |-> [cell |-> found[k][1], refs |-> ExtractRefs(found[k][2])]]

\* A variant of the formula section without the cap.
FormulaSectionUncapped(fms) ==
    IF fms = <<>> THEN <<>>
    ELSE <<[kind |-> "formula_count", n |-> Len(fms)],
           [kind |-> "formula_summary", shown |-> Least(Len(fms), FormulaRowsShown),
            total |-> Len(fms)]>>
         \o [k \in 1..Len(fms) |->
                [kind |-> "formula", cell |-> fms[k][1], formula |-> fms[k][2]]]
         \o (IF Len(fms) > FormulaRowsShown
             THEN <<[kind |-> "formula_more", n |-> Len(fms) - FormulaRowsShown]>>
             ELSE <<>>)

FormulaSection(fms) ==
    IF fms = <<>> THEN <<>>
    ELSE <<[kind |-> "formula_count", n |-> Len(fms)],
           [kind |-> "formula_summary", shown |-> Least(Len(fms), FormulaRowsShown),
            total |-> Len(fms)]>>
         \o [k \in 1..Least(Len(fms), FormulaRowsShown) |->
                [kind |-> "formula", cell |-> fms[k][1], formula |-> fms[k][2]]]
         \o (IF Len(fms) > FormulaRowsShown
             THEN <<[kind |-> "formula_more", n |-> Len(fms) - FormulaRowsShown]>>
             ELSE <<>>)

DependencySection(deps) ==
    IF deps = <<>> THEN <<>>
    ELSE <<[kind |-> "dependency_summary",
            shown |-> Least(Len(deps), DependencyRowsShown), total |-> Len(deps)]>>
         \o [k \in 1..Least(Len(deps), DependencyRowsShown) |->
                [kind |-> "dependency", cell |-> deps[k].cell, deps |-> deps[k].refs]]
         \o (IF Len(deps) > DependencyRowsShown
             THEN <<[kind |-> "dependency_more", n |-> Len(deps) - DependencyRowsShown]>>
             ELSE <<>>)

\* The rows and columns iter_rows is asked for the sample.
SampleRowNumbers(sheet) ==
    PyRange(sheet.min_row, Least(sheet.min_row + SampleRowSpan, sheet.max_row + 1) + 1)

SampleColumnNumbers(sheet) ==
    PyRange(sheet.min_col, Least(sheet.max_col + 1, SampleLastColumn) + 1)

\* str(c)[:30] if c is not None else ''
SampleCell(c) == IF c = None THEN <<>> ELSE SubSeq(c, 1, Least(Len(c), SampleCellChars))

SampleTable(sample_rows) ==
    IF Len(sample_rows[1]) > 0
    THEN <<[kind |-> "sample_header",
            cells |-> [j \in DOMAIN sample_rows[1] |-> SampleCell(sample_rows[1][j])]],
           [kind |-> "sample_rule", columns |-> Len(sample_rows[1])]>>
         \o [i \in 1..(Len(sample_rows) - 1) |->
                [kind |-> "sample_row",
                 cells |-> [j \in DOMAIN sample_rows[i + 1] |->
                               SampleCell(sample_rows[i + 1][j])]]]
    ELSE <<>>

SampleOf(sample_rows) ==
    IF sample_rows # <<>>
       /\ \E i \in DOMAIN sample_rows : \E j \in DOMAIN sample_rows[i] :
             sample_rows[i][j] # None
    THEN SampleTable(sample_rows)
    ELSE <<[kind |-> "sample_empty"]>>

SampleSection(sheet, rows, cols) ==
    SampleOf([i \in DOMAIN rows |-> [j \in DOMAIN cols |->
                                        SheetValue(sheet, rows[i], cols[j])]])

SheetSections(sheet, fms) ==
    HeaderLine(Headers(sheet))
    \o FormulaSection(fms)
    \o DependencySection(SheetDependencies(fms))
    \o SampleSection(sheet, SampleRowNumbers(sheet), SampleColumnNumbers(sheet))

\* The lines analyze_excel reports of one sheet.
analyze_sheet(sheet) ==
    <<[kind |-> "rows", n |-> sheet.max_row - sheet.min_row + 1],
      [kind |-> "columns", n |-> sheet.max_col - sheet.min_col + 1]>>
    \o SheetSections(sheet, SheetFormulas(ScannedCells(sheet)))

\* xlrd gives '' for an empty cell; the grid of a legacy sheet starts at its
\* first row and column.
XlsValue(sheet, rowx, colx) ==
    IF SheetValue(sheet, rowx + 1, colx + 1) = None THEN <<>>
    ELSE SheetValue(sheet, rowx + 1, colx + 1)

XlsHeaders(sheet) ==
    LET cols == PyRange(0, Least(sheet.max_col, HeaderColumns))
    IN SelectSeq([k \in DOMAIN cols |-> XlsValue(sheet, 0, cols[k])],
                 LAMBDA v : v # <<>>)

\* The lines _analyze_excel_xls reports of one sheet: nrows and ncols are the
\* last used row and column.
analyze_sheet_xls(sheet) ==
    <<[kind |-> "rows", n |-> sheet.max_row],
      [kind |-> "columns", n |-> sheet.max_col]>>
    \o (IF sheet.max_row > 0 THEN HeaderLine(XlsHeaders(sheet)) ELSE <<>>)

SheetFills == {"formulas", "numbers", "text", "corners", "mixed"}

\* A legacy sheet gives the values of its cells, not their formulas.
XlsFills == {"text", "corners"}

SampleSheets(fills) ==
    {[min_row |-> r, max_row |-> r + h - 1, min_col |-> c, max_col |-> c + w - 1,
      fill |-> fill] :
        r \in {1, 2}, h \in {1, 5, 6, MaxSheetRows},
        c \in {1, 3, 16}, w \in {1, 3, 15, MaxSheetCols - 1, MaxSheetCols},
        fill \in fills}

SheetInit ==
    /\ fs = <<>>
    /\ pc = "sheet"
    /\ last = NoCall
    /\ cell = NoCell
    /\ formulas = <<>>
    /\ cell_dependencies = <<>>

AnalyzeExcelSheet ==
    /\ pc = "sheet"
    /\ pc' = "sheet_reported"
    /\ \E sheet \in SampleSheets(SheetFills) :
          last' = [op |-> "analyze_excel", arg |-> sheet, out |-> analyze_sheet(sheet)]
    /\ UNCHANGED <<fs, cell, formulas, cell_dependencies>>

AnalyzeXlsSheet ==
    /\ pc = "sheet"
    /\ pc' = "sheet_reported"
    /\ \E sheet \in SampleSheets(XlsFills) :
          last' = [op |-> "analyze_excel_xls", arg |-> sheet,
                   out |-> analyze_sheet_xls(sheet)]
    /\ UNCHANGED <<fs, cell, formulas, cell_dependencies>>

SheetNext == AnalyzeExcelSheet \/ AnalyzeXlsSheet

SheetSpec == SheetInit /\ [][SheetNext]_vars


(***************************************************************************)
(* analyze_word: the tables.  A table is [rows, columns]; a row is the     *)
(* sequence of the texts of its cells.                                     *)
(***************************************************************************)
MaxTables == 11   \* tables of an enumerated document

TablesShown == 10

TableRowsShown == 4

TableCellChars == 30

\* cell.text.strip()[:30]
TableCell(text) == SubSeq(Strip(text), 1, Least(Len(Strip(text)), TableCellChars))

TableCells(row) == [j \in DOMAIN row |-> TableCell(row[j])]

\* any(header_cells)
AnyCell(cells) == \E j \in DOMAIN cells : cells[j] # <<>>

\* The header row, the rule, the rows table.rows[1:4] and the note of the
\* rows that are left.
TableBody(rows) ==
    <<[kind |-> "table_header", cells |-> TableCells(rows[1])],
      [kind |-> "table_rule", columns |-> Len(rows[1])]>>
    \o [k \in 1..(Least(Len(rows), TableRowsShown) - 1) |->
           [kind |-> "table_row", cells |-> TableCells(rows[k + 1])]]
    \o (IF Len(rows) > TableRowsShown
        THEN <<[kind |-> "table_more_rows", n |-> Len(rows) - TableRowsShown]>>
        ELSE <<>>)

\* The lines of the table at position i (from 1) of the document.
TableLines(table, i) ==
    <<[kind |-> "table", index |-> i, rows |-> Len(table.rows),
       columns |-> table.columns]>>
    \o (IF table.rows # <<>> /\ AnyCell(TableCells(table.rows[1]))
        THEN TableBody(table.rows) ELSE <<>>)
    \o <<[kind |-> "blank"]>>

RECURSIVE TablesLoop(_, _)
TablesLoop(tables, i) ==
    IF i > Least(Len(tables), TablesShown) THEN <<>>
    ELSE TableLines(tables[i], i) \o TablesLoop(tables, i + 1)

\* The table section of analyze_word.
analyze_word_tables(tables) ==
    IF tables = <<>> THEN <<>>
    ELSE <<[kind |-> "tables_heading"]>>
         \o TablesLoop(tables, 1)
         \o (IF Len(tables) > TablesShown
             THEN <<[kind |-> "more_tables", n |-> Len(tables) - TablesShown]>>
             ELSE <<>>)

\* 32 characters
LongText == [k \in 1..32 |-> IF k = 31 THEN "y" ELSE "x"]

SampleHeads == {<<<<"a"," ","b">>, <<>>>>, <<<<>>, <<" ">>>>}

SampleRow(k) == <<<<" ">> \o LongText \o <<" ">>, DecStr(k)>>

SampleTables ==
    {[rows |-> [k \in 1..n |-> IF k = 1 THEN head ELSE SampleRow(k)],
      columns |-> IF n = 0 THEN 0 ELSE 2] :
        n \in {0, 1, 4, 5, 6}, head \in SampleHeads}

TablesInit ==
    /\ fs = <<>>
    /\ pc = "tables"
    /\ last = NoCall
    /\ cell = NoCell
    /\ formulas = <<>>
    /\ cell_dependencies = <<>>

\* A document of n tables, two sample tables in turn.
AnalyzeWordTables ==
    /\ pc = "tables"
    /\ pc' = "tables_reported"
    /\ \E n \in 0..MaxTables, odd \in SampleTables, even \in SampleTables :
          \E tables \in {[i \in 1..n |-> IF i % 2 = 1 THEN odd ELSE even]} :
              last' = [op |-> "analyze_word_tables", arg |-> tables,
                       out |-> analyze_word_tables(tables)]
    /\ UNCHANGED <<fs, cell, formulas, cell_dependencies>>

TablesNext == AnalyzeWordTables

TablesSpec == TablesInit /\ [][TablesNext]_vars


(***************************************************************************)
(* generate_folder_report: the one-line description of a code file.  A     *)
(* file is the sequence of its lines, without their line ends.             *)
(***************************************************************************)
MaxCodeLines == 6    \* lines of an enumerated code file

DescriptionLines == 5

DescriptionExamined == 3

DescriptionChars == 80

CommentTokens ==
    {<<"#">>, <<"/","/">>, <<"/","*">>, <<"\"","\"","\"">>, <<"'","'","'">>, <<"*">>}

NoDescription == <<"None">>

\* The loop over enumerate(f): of the lines numbered 0..4, those that are
\* not empty when stripped and that do not start with '#!'.
FirstLines(lines) ==
    SelectSeq([k \in 1..Least(Len(lines), DescriptionLines) |-> Strip(lines[k])],
              LAMBDA stripped : stripped # <<>> /\ ~StartsWith(stripped, <<"#","!">>))

StartsWithToken(line) == \E token \in CommentTokens : StartsWith(line, token)

\* The loop over first_lines[:3]: the first line that starts with a token,
\* cut to 80 characters.
RECURSIVE DescriptionAmong(_, _, _)
DescriptionAmong(first_lines, k, n) ==
    IF k > n THEN NoDescription
    ELSE IF StartsWithToken(first_lines[k])
    THEN SubSeq(first_lines[k], 1, Least(Len(first_lines[k]), DescriptionChars))
    ELSE DescriptionAmong(first_lines, k + 1, n)

DescriptionOf(first_lines) ==
    DescriptionAmong(first_lines, 1, Least(Len(first_lines), DescriptionExamined))

code_description(lines) == DescriptionOf(FirstLines(lines))

\* A comment of 82 characters with blanks around it
LongComment == <<" ", " ">> \o [k \in 1..82 |-> IF k <= 2 THEN "/" ELSE "x"] \o <<" ">>

SampleLines ==
    {<<"#"," ","c">>, <<"#","!","/","b">>, <<" ">>, <<"x","=","1">>, LongComment}

CodeInit ==
    /\ fs = <<>>
    /\ pc = "code"
    /\ last = NoCall
    /\ cell = NoCell
    /\ formulas = <<>>
    /\ cell_dependencies = <<>>

DescribeCode ==
    /\ pc = "code"
    /\ pc' = "described"
    /\ \E lines \in UNION {[1..n -> SampleLines] : n \in 0..MaxCodeLines} :
          last' = [op |-> "code_description", arg |-> lines,
                   out |-> code_description(lines)]
    /\ UNCHANGED <<fs, cell, formulas, cell_dependencies>>

CodeNext == DescribeCode

CodeSpec == CodeInit /\ [][CodeNext]_vars


(***************************************************************************)
(* The three classifications of a file name: the category categorize_files *)
(* files it under, the label of its extension in the histogram of the      *)
(* master report, and its glyph.  Each is computed on suffix.lower().      *)
(***************************************************************************)
UpperChar(c) ==
    IF \E u \in UpperLetters : LowerChar(u) = c /\ u # c
    THEN AsciiChars[Ord[c] - 27] ELSE c

KnownExtensions ==
    EXCEL_EXTENSIONS \cup EXCEL_OLD_EXTENSIONS \cup WORD_EXTENSIONS \cup PDF_EXTENSIONS
    \cup IMAGE_EXTENSIONS \cup CODE_EXTENSIONS \cup ARCHIVE_EXTENSIONS

\* Extensions of no set, the last one a name without extension.
OtherExtensions == {<<".","x","y","z">>, <<".","p","y","c">>, <<".","x","l">>, <<>>}

SampleExtensions ==
    KnownExtensions \cup VIDEO_EXTENSIONS \cup AUDIO_EXTENSIONS \cup OtherExtensions

\* The names a.ext and A.EXT
SampleFileNames ==
    {<<"a">> \o ext : ext \in SampleExtensions}
    \cup {<<"A">> \o [i \in DOMAIN ext |-> UpperChar(ext[i])] : ext \in SampleExtensions}

Classification(ext) ==
    [ext |-> ext, category |-> CategoryOf(ext), label |-> MasterCategoryLabel(ext),
     icon |-> get_file_icon(ext)]

ExtInit ==
    /\ fs = <<>>
    /\ pc = "extension"
    /\ last = NoCall
    /\ cell = NoCell
    /\ formulas = <<>>
    /\ cell_dependencies = <<>>

ClassifyFile ==
    /\ pc = "extension"
    /\ pc' = "classified"
    /\ \E name \in SampleFileNames :
          last' = [op |-> "classify", arg |-> name,
                   out |-> Classification(Lower(Suffix(name)))]
    /\ UNCHANGED <<fs, cell, formulas, cell_dependencies>>

ExtNext == ClassifyFile

ExtSpec == ExtInit /\ [][ExtNext]_vars


(***************************************************************************)
(* app.py: the two upload handlers.  Here the paths of fs are absolute,    *)
(* Root is the root of the file system.  A handler is one step: what it    *)
(* leaves in the file system is fs', its response is last.out.             *)
(***************************************************************************)
MaxUploadFiles == 2   \* files of an enumerated folder upload

UPLOAD_FOLDER == <<<<"u","p">>>>

\* tempfile.mkdtemp(dir=UPLOAD_FOLDER): a directory that was not there.
TempDir == UPLOAD_FOLDER \o <<<<"t","1">>>>

ProjectName == <<"p","r","o","j","e","c","t">>

MacosxName == <<"_","_","M","A","C","O","S","X">>

DirEntry == [kind |-> "dir", size |-> 0, content |-> [by |-> "dir", of |-> <<>>]]

UploadedEntry == [kind |-> "file", size |-> 1536, content |-> [by |-> "upload", of |-> <<>>]]

IsUnder(p, d) == p = d \/ IsBelow(p, d)

\* The file system with the entries of g added or replaced.
Overlaid(f, g) ==
    [p \in DOMAIN f \cup DOMAIN g |-> IF p \in DOMAIN g THEN g[p] ELSE f[p]]

\* shutil.rmtree(d)
RmTree(f, d) == [p \in {q \in DOMAIN f : ~IsUnder(q, d)} |-> f[p]]

\* The directory d as a tree of its own, its paths relative to d.
Rebased(f, d) ==
    [p \in {SubSeq(q, Len(d) + 1, Len(q)) : q \in {q \in DOMAIN f : IsBelow(q, d)}} |->
        f[d \o p]]

DotDot == <<".", ".">>

\* The path the operating system reaches for the components parts.
RECURSIVE Resolved(_, _)
Resolved(done, parts) ==
    IF parts = <<>> THEN done
    ELSE IF parts[1] = DotDot
    THEN Resolved(IF done = Root THEN Root ELSE Parent(done), Tail(parts))
    ELSE Resolved(Append(done, parts[1]), Tail(parts))

\* os.path.join(temp_dir, name): an absolute name replaces temp_dir.
Joined(temp_dir, name) == IF name.absolute THEN name.parts ELSE temp_dir \o name.parts

\* os.makedirs(parts, exist_ok=True): the directories on the way, made one
\* after the other until one of them is there as a file.
RECURSIVE MakeDirs(_, _, _)
MakeDirs(f, parts, k) ==
    IF k > Len(parts) THEN [fs |-> f, raised |-> FALSE]
    ELSE IF Resolved(Root, SubSeq(parts, 1, k)) = Root
            \/ is_dir(f, Resolved(Root, SubSeq(parts, 1, k)))
    THEN MakeDirs(f, parts, k + 1)
    ELSE IF Resolved(Root, SubSeq(parts, 1, k)) \in DOMAIN f
    THEN [fs |-> f, raised |-> TRUE]
    ELSE MakeDirs(Overlaid(f, [p \in {Resolved(Root, SubSeq(parts, 1, k))} |-> DirEntry]),
                  parts, k + 1)

\* file.save(path): raises when the path is a directory.
Saved(made, path, entry) ==
    IF made.raised \/ path = Root \/ is_dir(made.fs, path)
    THEN [fs |-> made.fs, raised |-> TRUE]
    ELSE [fs |-> Overlaid(made.fs, [p \in {path} |-> entry]), raised |-> FALSE]

\* One file of the loop of upload_folder_files.
SaveUpload(f, temp_dir, name) ==
    Saved(MakeDirs(f, Joined(temp_dir, [name EXCEPT !.parts = Parent(name.parts)]), 1),
          Resolved(Root, Joined(temp_dir, name)), UploadedEntry)

\* The loop over the files; a file without a name is passed over.
RECURSIVE SaveUploads(_, _, _, _)
SaveUploads(f, temp_dir, files, i) ==
    IF i > Len(files) THEN [fs |-> f, raised |-> FALSE]
    ELSE IF files[i].parts = <<>> THEN SaveUploads(f, temp_dir, files, i + 1)
    ELSE IF SaveUpload(f, temp_dir, files[i]).raised
    THEN SaveUpload(f, temp_dir, files[i])
    ELSE SaveUploads(SaveUpload(f, temp_dir, files[i]).fs, temp_dir, files, i + 1)

\* The response of a handler and the file system it leaves: the finally
\* clause removes the temporary directory.
Responded(f, temp_dir, status, root, result) ==
    [fs |-> RmTree(f, temp_dir),
     out |-> [status |-> status, root |-> root, result |-> result]]

SubdirsOf(f, o, d) == SelectSeq(iterdir(f, d, o), LAMBDA p : is_dir(f, p))

\* The folder upload_folder_files analyses: the only directory of the top
\* level when there is exactly one.
UploadedRoot(f, o, temp_dir) ==
    IF Len(SubdirsOf(f, o, temp_dir)) = 1 THEN SubdirsOf(f, o, temp_dir)[1] ELSE temp_dir

AnalysedAt(f, o, temp_dir, root) ==
    Responded(f, temp_dir, 200, root, analyze_folder_full(Rebased(f, root), o, Root))

upload_folder_files_saved(saved, o, temp_dir) ==
    IF saved.raised THEN Responded(saved.fs, temp_dir, 500, Root, <<>>)
    ELSE AnalysedAt(saved.fs, o, temp_dir, UploadedRoot(saved.fs, o, temp_dir))

upload_folder_files(f, o, files) ==
    IF files = <<>> THEN [fs |-> f, out |-> [status |-> 400, root |-> Root, result |-> <<>>]]
    ELSE upload_folder_files_saved(
             SaveUploads(Overlaid(f, [p \in {TempDir} |-> DirEntry]), TempDir, files, 1),
             o, TempDir)

\* zip_ref.extractall(extract_dir): each member with the directories above
\* it; nothing is made for an archive without members.
Extracted(f, extract_dir, members) ==
    Overlaid(f,
        [p \in UNION {{extract_dir \o SubSeq(m.path, 1, n) : n \in 0..Len(m.path)} :
                          m \in members} |->
            IF \E m \in members : m.path = SubSeq(p, Len(extract_dir) + 1, Len(p))
                                  /\ m.kind = "file"
            THEN UploadedEntry ELSE DirEntry])

WithoutMacosx(f, extract_dir) ==
    IF exists(f, extract_dir \o <<MacosxName>>)
    THEN RmTree(f, extract_dir \o <<MacosxName>>) ELSE f

\* The folder upload_folder analyses.
ExtractRoot(f, o, extract_dir) ==
    IF Len(SubdirsOf(f, o, extract_dir)) = 1
       /\ ~(iterdir(f, extract_dir, o) = SubdirsOf(f, o, extract_dir))
       /\ SelectSeq(iterdir(f, extract_dir, o), LAMBDA p : is_file(f, p)) = <<>>
    THEN SubdirsOf(f, o, extract_dir)[1]
    ELSE extract_dir

\* After the extraction: os.listdir raises when extract_dir is not there.
upload_folder_extracted(f, o, temp_dir, extract_dir) ==
    IF ~exists(f, extract_dir) THEN Responded(f, temp_dir, 500, Root, <<>>)
    ELSE AnalysedAt(f, o, temp_dir, ExtractRoot(f, o, extract_dir))

EndsWith(s, suffix) ==
    Len(s) >= Len(suffix) /\ SubSeq(s, Len(s) - Len(suffix) + 1, Len(s)) = suffix

\* The names of the sample requests are names that secure_filename leaves as
\* they are.
upload_folder(f, o, filename, zip) ==
    IF filename = <<>> \/ ~EndsWith(Lower(filename), <<".","z","i","p">>)
    THEN [fs |-> f, out |-> [status |-> 400, root |-> Root, result |-> <<>>]]
    ELSE IF zip.bad
    THEN Responded(Overlaid(f, [p \in {TempDir, TempDir \o <<filename>>} |->
                                   IF p = TempDir THEN DirEntry ELSE UploadedEntry]),
                   TempDir, 400, Root, <<>>)
    ELSE upload_folder_extracted(
             WithoutMacosx(
                 Extracted(Overlaid(f, [p \in {TempDir, TempDir \o <<filename>>} |->
                                           IF p = TempDir THEN DirEntry ELSE UploadedEntry]),
                           TempDir \o <<ProjectName>>, zip.members),
                 TempDir \o <<ProjectName>>),
             o, TempDir, TempDir \o <<ProjectName>>)

\* The file system of the server before a request: the upload folder and a
\* directory beside it that holds a file.
ServerFile == <<<<"v","a","r">>, <<"x",".","t","x","t">>>>

ServerFs ==
    [p \in {UPLOAD_FOLDER, <<<<"v","a","r">>>>, ServerFile} |->
        IF p = ServerFile THEN [kind |-> "file", size |-> 1, content |-> UserContent]
        ELSE DirEntry]

SampleMembers ==
    {[path |-> <<<<"p","r","o","j">>, <<"a",".","t","x","t">>>>, kind |-> "file"],
     [path |-> <<<<"p","r","o","j">>, <<"s","u","b">>, <<"b",".","p","y">>>>, kind |-> "file"],
     [path |-> <<<<"l","i","b">>, <<"c",".","t","x","t">>>>, kind |-> "file"],
     [path |-> <<<<"r",".","m","d">>>>, kind |-> "file"],
     [path |-> <<MacosxName, <<".","_","a">>>>, kind |-> "file"],
     [path |-> <<<<"d","o","c","s">>>>, kind |-> "dir"]}

SampleZips ==
    {[bad |-> TRUE, members |-> {}]}
    \cup {[bad |-> FALSE, members |-> members] : members \in SUBSET SampleMembers}

SampleZipNames == {<<"p",".","z","i","p">>, <<"P",".","Z","I","P">>, <<"p",".","t","a","r">>, <<>>}

\* a/f.txt, a/b/g.txt, f.txt, ../x.txt, a/../../y.txt, /var/x.txt, a (a file
\* where a/f.txt needs a directory) and a file without a name
SampleUploadNames ==
    {[absolute |-> FALSE, parts |-> <<<<"a">>, <<"f",".","t","x","t">>>>],
     [absolute |-> FALSE, parts |-> <<<<"a">>, <<"b">>, <<"g",".","t","x","t">>>>],
     [absolute |-> FALSE, parts |-> <<<<"f",".","t","x","t">>>>],
     [absolute |-> FALSE, parts |-> <<DotDot, <<"x",".","t","x","t">>>>],
     [absolute |-> FALSE, parts |-> <<<<"a">>, DotDot, DotDot, <<"y",".","t","x","t">>>>],
     [absolute |-> TRUE, parts |-> ServerFile],
     [absolute |-> FALSE, parts |-> <<<<"a">>>>],
     [absolute |-> FALSE, parts |-> <<>>]}

UploadInit ==
    /\ fs = ServerFs
    /\ pc = "upload"
    /\ last = NoCall
    /\ cell = NoCell
    /\ formulas = <<>>
    /\ cell_dependencies = <<>>

UploadFolder ==
    /\ pc = "upload"
    /\ pc' = "responded"
    /\ \E o \in OsOrders, filename \in SampleZipNames, zip \in SampleZips :
          \E r \in {upload_folder(fs, o, filename, zip)} :
              /\ fs' = r.fs
              /\ last' = [op |-> "upload_folder",
                          arg |-> [o |-> o, filename |-> filename, zip |-> zip],
                          out |-> r.out]
    /\ UNCHANGED <<cell, formulas, cell_dependencies>>

UploadFolderFiles ==
    /\ pc = "upload"
    /\ pc' = "responded"
    /\ \E o \in OsOrders,
          files \in UNION {[1..n -> SampleUploadNames] : n \in 0..MaxUploadFiles} :
          \E r \in {upload_folder_files(fs, o, files)} :
              /\ fs' = r.fs
              /\ last' = [op |-> "upload_folder_files",
                          arg |-> [o |-> o, files |-> files], out |-> r.out]
    /\ UNCHANGED <<cell, formulas, cell_dependencies>>

UploadNext == UploadFolder \/ UploadFolderFiles

UploadSpec == UploadInit /\ [][UploadNext]_vars


(***************************************************************************)
(* Notions the properties are stated with.                                 *)
(***************************************************************************)
Range(s) == {s[i] : i \in 1..Len(s)}

RECURSIVE SumSeq(_)
SumSeq(s) == IF s = <<>> THEN 0 ELSE s[1] + SumSeq(Tail(s))

\* A directory the path filter excludes: named in the ignore set, hidden, or
\* the report folder.
ExcludedDir(f, d) ==
    /\ d \in DOMAIN f
    /\ f[d].kind = "dir"
    /\ \/ NameOf(d) \in IGNORED_DIRS
       \/ StartsWithDot(NameOf(d))
       \/ NameOf(d) = RAPOR_KLASOR_ADI

\* p is such a directory or lies beneath one.
Excluded(f, p) == \E k \in 1..Len(p) : ExcludedDir(f, SubSeq(p, 1, k))

\* The path each line of a rendered tree stands for, read off the text: a
\* line with n indents is n + 1 levels below the root, under the directory
\* lines that precede it.  A truncation line stands for the directory it cuts.
RECURSIVE LinePathsFrom(_, _, _)
LinePathsFrom(tree, i, cur) ==
    IF i > Len(tree) THEN <<>>
    ELSE LET l == tree[i]
             path == IF l.kind = "root" THEN <<>>
                     ELSE IF l.kind = "trunc" THEN SubSeq(cur, 1, Len(l.prefix))
                     ELSE Append(SubSeq(cur, 1, Len(l.prefix)), l.name)
         IN <<[kind |-> l.kind, path |-> path]>>
            \o LinePathsFrom(tree, i + 1, IF l.kind = "dir" THEN path ELSE cur)

LinePaths(tree) == LinePathsFrom(tree, 1, <<>>)

TreeEntryPaths(tree) ==
    {l.path : l \in {x \in Range(LinePaths(tree)) : x.kind \in {"dir", "file"}}}

TreeFilePaths(tree) ==
    {l.path : l \in {x \in Range(LinePaths(tree)) : x.kind = "file"}}

\* The tree a call returned, for the calls that return one.
HasTree == last.op \in {"build_tree", "run_analysis", "analyze_folder_full"}

LastTree ==
    IF last.op = "build_tree" THEN last.out
    ELSE IF last.op = "run_analysis" THEN last.out.master.tree
    ELSE last.out.tree

(***************************************************************************)
(* C1.  categorize_files is a complete partition: every regular file of    *)
(* the folder that is not hidden and is not the per-folder report file is  *)
(* in exactly one of the seven lists, exactly once, and the lengths of the *)
(* seven lists add up to the number of such files.                         *)
(***************************************************************************)
C1_Eligible(folder) ==
    {p \in Children(fs, folder) :
        /\ fs[p].kind = "file"
        /\ NameOf(p)[1] # "."
        /\ NameOf(p) # RAPOR_DOSYA_ADI}

C1_CategorizePartition ==
    last.op = "categorize_files" =>
        LET lists == last.out
            slots == UNION {{c} \X DOMAIN lists[c] : c \in DOMAIN lists}
            places(p) == {s \in slots : lists[s[1]][s[2]] = p}
        IN /\ DOMAIN lists = Range(Categories)
           /\ Len(Categories) = 7
           /\ \A p \in C1_Eligible(last.arg) : Cardinality(places(p)) = 1
           /\ SumSeq([k \in 1..7 |-> Len(lists[Categories[k]])])
                = Cardinality(C1_Eligible(last.arg))

\* A folder with files in two categories and an entry that is not eligible.
C1_Witness ==
    /\ last.op = "categorize_files"
    /\ Cardinality({c \in DOMAIN last.out : last.out[c] # <<>>}) >= 2
    /\ Children(fs, last.arg) \ C1_Eligible(last.arg) # {}

(***************************************************************************)
(* C2.  A directory that is named in IGNORED_DIRS, is hidden or is the     *)
(* report folder, and everything beneath it, is on no line of a rendered   *)
(* tree, gets no folder report from run_analysis or analyze_folder_full,   *)
(* and is not counted in the statistics: not among the counted files       *)
(* (which make up the file total, the byte total and the extension         *)
(* histogram) and not in the directory total.                              *)
(***************************************************************************)
C2_Stats ==
    IF last.op = "run_analysis"
    THEN [total_files |-> last.out.master.total_files,
          total_dirs |-> last.out.master.total_dirs,
          total_size_bytes |-> last.out.master.total_size_bytes,
          hist |-> [i \in DOMAIN last.out.master.type_rows |->
                        last.out.master.type_rows[i].count],
          counted |-> last.out.master.counted_files,
          reported |-> [i \in DOMAIN last.out.folder_reports |->
                            last.out.folder_reports[i].folder_path]]
    ELSE [total_files |-> last.out.stats.total_files,
          total_dirs |-> last.out.stats.total_dirs,
          total_size_bytes |-> last.out.stats.total_size_bytes,
          hist |-> [i \in DOMAIN last.out.file_types |->
                        last.out.file_types[i].count],
          counted |-> last.out.counted_files,
          reported |-> <<last.out.main_report.folder>>
                       \o [i \in DOMAIN last.out.folder_reports |->
                            last.out.folder_reports[i].path]]

C2_IgnoredNeverAppear ==
    /\ HasTree => \A p \in TreeEntryPaths(LastTree) : ~Excluded(fs, p)
    /\ last.op \in {"run_analysis", "analyze_folder_full"} =>
        LET s == C2_Stats
        IN /\ \A p \in Range(s.reported) : ~Excluded(fs, p)
           /\ \A p \in Range(s.counted) : ~Excluded(fs, p)
           /\ s.total_files = Cardinality(Range(s.counted))
           /\ s.total_size_bytes =
                SumSeq([i \in DOMAIN s.counted |->
                            IF fs[s.counted[i]].kind = "file"
                            THEN fs[s.counted[i]].size ELSE 0])
           /\ SumSeq(s.hist) =
                Cardinality({p \in Range(s.counted) : Suffix(NameOf(p)) # <<>>})
           /\ s.total_dirs =
                Cardinality({d \in DOMAIN fs :
                                fs[d].kind = "dir" /\ ~Excluded(fs, d)})

\* A run over a directory that holds a visible file beneath a hidden
\* directory and an ignored directory, and that now has its report folder.
C2_Witness ==
    /\ last.op = "run_analysis"
    /\ \E p \in DOMAIN fs :
          /\ Len(p) = 2
          /\ fs[p].kind = "file"
          /\ fs[p].size > 0
          /\ ~StartsWithDot(NameOf(p))
          /\ StartsWithDot(NameOf(Parent(p)))
    /\ \E d \in DOMAIN fs : fs[d].kind = "dir" /\ NameOf(d) \in IGNORED_DIRS
    /\ <<RAPOR_KLASOR_ADI>> \in DOMAIN fs

(***************************************************************************)
(* C3.  The three views agree on the files of a folder: for every folder   *)
(* that got a report (all of them lie within the depth cap of the tree),   *)
(* the files the tree lists in it, the files categorize_files returned for *)
(* it and the files the statistics walk counted in it are the same set of  *)
(* regular files.                                                          *)
(***************************************************************************)
C3_ThreeViewsAgree ==
    last.op = "analyze_folder_full" =>
        LET reports == <<last.out.main_report>>
                       \o [i \in DOMAIN last.out.folder_reports |->
                            last.out.folder_reports[i].report]
        IN \A i \in DOMAIN reports :
            LET d == reports[i].folder
                regular == {p \in DOMAIN fs : fs[p].kind = "file"}
                in_tree == {p \in TreeFilePaths(last.out.tree) : Parent(p) = d}
                in_lists == Range(AllFiles(reports[i].categories, 1))
                in_stats == {p \in Range(last.out.counted_files) : Parent(p) = d}
            IN Len(d) < DefaultMaxDepth =>
                /\ in_tree \cap regular = in_lists \cap regular
                /\ in_lists \cap regular = in_stats \cap regular

(***************************************************************************)
(* C4.  The tool's own report artifacts are excluded from every view: a    *)
(* second run_analysis on the directory the first one left behind yields   *)
(* the same tree, the same category lists per folder and the same total    *)
(* file count as the first.                                                *)
(***************************************************************************)
C4_Lists(out) ==
    [i \in DOMAIN out.reports |->
        [folder |-> out.reports[i].folder,
         lists |-> out.reports[i].categories]]

C4_SecondRunSame ==
    [][(last.op = "run_analysis" /\ last'.op = "run_analysis") =>
            /\ last'.out.master.tree = last.out.master.tree
            /\ C4_Lists(last'.out) = C4_Lists(last.out)
            /\ last'.out.master.total_files = last.out.master.total_files]_vars

(***************************************************************************)
(* C5.  In a folder report, the file count shown for a subfolder is the    *)
(* number of files beneath it that pass the path filter: regular files     *)
(* that are not hidden, are not report artifacts and do not lie under a    *)
(* hidden or ignored directory.                                            *)
(***************************************************************************)
C5_Passing(d) ==
    {p \in DOMAIN fs :
        /\ IsBelow(p, d)
        /\ fs[p].kind = "file"
        /\ ~StartsWithDot(NameOf(p))
        /\ NameOf(p) \notin {RAPOR_DOSYA_ADI, PROJE_ANALIZ_RAPORU}
        /\ ~Excluded(fs, Parent(p))}

C5_SubfolderCountsFiltered ==
    last.op = "analyze_folder_full" =>
        LET reports == <<last.out.main_report>>
                       \o [i \in DOMAIN last.out.folder_reports |->
                            last.out.folder_reports[i].report]
        IN \A i \in DOMAIN reports : \A k \in DOMAIN reports[i].subdirs :
            reports[i].subdirs[k].sub_file_count =
                Cardinality(C5_Passing(Append(reports[i].folder,
                                              reports[i].subdirs[k].name)))

(***************************************************************************)
(* C6.  The total file count of the master report is the sum of the file   *)
(* counts of the rows of its folder table, and the count of each row is    *)
(* the 'total files' of the report of the same folder.                     *)
(***************************************************************************)
C6_TotalIsSumOfFolders ==
    last.op = "run_analysis" =>
        LET m == last.out.master
        IN /\ m.total_files =
                SumSeq([i \in DOMAIN m.table |-> m.table[i].file_count])
           /\ \A i \in DOMAIN m.table : \A k \in DOMAIN last.out.reports :
                last.out.reports[k].folder = m.table[i].relative =>
                    last.out.reports[k].total_files = m.table[i].file_count

(***************************************************************************)
(* The cell references a formula contains, read as a spreadsheet reads the *)
(* formula: a name is a maximal run of letters, digits, '$', '_' and '.'   *)
(* that does not start with a digit; a name followed by '(' is a function, *)
(* a name followed by '!' is a sheet qualifier, and a name is a cell       *)
(* reference when it is letters then digits, each optionally preceded by   *)
(* '$'.  Two references joined by ':' are one range.                       *)
(***************************************************************************)
LowerLetters == {AsciiChars[i] : i \in 47..72}

NameChars == UpperLetters \cup LowerLetters \cup Digits \cup {"$", "_", "."}

IsCellReference(w) ==
    LET a == IF w # <<>> /\ w[1] = "$" THEN 2 ELSE 1
        b == RunEnd(w, a, UpperLetters)
        c == IF b <= Len(w) /\ w[b] = "$" THEN b + 1 ELSE b
        d == RunEnd(w, c, Digits)
    IN b > a /\ d > c /\ d = Len(w) + 1

\* The name starting at i is a reference used as one: the index after it,
\* or 0.
ReferenceAt(s, i) ==
    LET j == RunEnd(s, i, NameChars)
    IN IF /\ j > i
          /\ IsCellReference(SubSeq(s, i, j - 1))
          /\ ~(j <= Len(s) /\ s[j] \in {"(", "!"})
       THEN j ELSE 0

RECURSIVE ReferencesFrom(_, _)
ReferencesFrom(s, i) ==
    IF i > Len(s) THEN <<>>
    ELSE IF s[i] \in Digits THEN ReferencesFrom(s, RunEnd(s, i, Digits))
    ELSE IF s[i] \notin NameChars THEN ReferencesFrom(s, i + 1)
    ELSE LET j == RunEnd(s, i, NameChars)
             e == ReferenceAt(s, i)
             r == IF e # 0 /\ e < Len(s) /\ s[e] = ":"
                  THEN ReferenceAt(s, e + 1) ELSE 0
         IN IF e = 0
            THEN ReferencesFrom(s, IF j <= Len(s) /\ s[j] = "!" THEN j + 1 ELSE j)
            ELSE IF r # 0 THEN <<SubSeq(s, i, r - 1)>> \o ReferencesFrom(s, r)
            ELSE <<SubSeq(s, i, e - 1)>> \o ReferencesFrom(s, e)

\* The edges recorded for the scanned cell.
RecordedEdges ==
    IF \E k \in DOMAIN cell_dependencies :
            cell_dependencies[k].cell = CellRef(cell)
    THEN (CHOOSE d \in Range(cell_dependencies) : d.cell = CellRef(cell)).refs
    ELSE <<>>

(***************************************************************************)
(* C7.  Dependency extraction is order-preserving and exhaustive: for      *)
(* every formula, the edges recorded for its cell are exactly the cell     *)
(* references and ranges the formula contains, absolute ones such as $A$1  *)
(* included, left to right with duplicates kept, and nothing that is not a *)
(* cell reference (a function name such as LOG10) is recorded; and         *)
(* =SUM(A1:A10)+B2 yields exactly A1:A10, B2.                              *)
(***************************************************************************)
C7_EdgesAreTheReferences ==
    (pc = "scanned" /\ IsFormula(cell.value)) =>
        /\ RecordedEdges = ReferencesFrom(cell.value, 1)
        /\ cell.value = SampleSum =>
              RecordedEdges = << <<"A","1",":","A","1","0">>, <<"B","2">> >>

(***************************************************************************)
(* C8.  The tokenizer drops a sheet-name qualifier: for every sheet name S *)
(* and reference R, the formula =S!R+1 yields exactly the edge list [R],   *)
(* also when S is uppercase letters followed by digits (Q1, DATA2).        *)
(***************************************************************************)
C8_SheetQualifierDropped ==
    pc = "scanned" =>
        \A S \in SheetNames, R \in SampleRefs :
            cell.value = Qualified(S, R) => RecordedEdges = <<R>>

(***************************************************************************)
(* C9.  Tree rendering is deterministic: two build_tree calls with the     *)
(* same arguments on the unmodified directory return the same lines,       *)
(* whatever order the operating system lists the entries in.               *)
(***************************************************************************)
C9_TreeDeterministic ==
    [][(/\ last.op = "build_tree"
        /\ last'.op = "build_tree"
        /\ last'.arg = last.arg
        /\ fs' = fs) => last'.out = last.out]_vars

(***************************************************************************)
(* C10.  In a rendered tree, within every directory all subdirectory lines *)
(* come before all file lines, and within each of the two groups the       *)
(* entries are in ascending order of their lower-cased name.               *)
(***************************************************************************)
C10_Siblings(tree) ==
    LET lp == LinePaths(tree)
    IN {ij \in (DOMAIN tree) \X (DOMAIN tree) :
          /\ ij[1] < ij[2]
          /\ lp[ij[1]].kind \in {"dir", "file"}
          /\ lp[ij[2]].kind \in {"dir", "file"}
          /\ Len(lp[ij[1]].path) = Len(lp[ij[2]].path)
          /\ Parent(lp[ij[1]].path) = Parent(lp[ij[2]].path)}

C10_DirsFirstThenByLowerName ==
    HasTree =>
        \A ij \in C10_Siblings(LastTree) :
            LET a == LastTree[ij[1]]
                b == LastTree[ij[2]]
            IN /\ ~(a.kind = "file" /\ b.kind = "dir")
               /\ a.kind = b.kind => ~StrLess(Lower(b.name), Lower(a.name))

\* A tree in which a directory holds a subdirectory and two files, one of
\* which has an upper-case name that sorts first byte-wise.
C10_Witness ==
    /\ last.op = "build_tree"
    /\ \E ij \in C10_Siblings(last.out) :
          last.out[ij[1]].kind = "dir" /\ last.out[ij[2]].kind = "file"
    /\ \E ij \in C10_Siblings(last.out) :
          /\ last.out[ij[1]].kind = "file" /\ last.out[ij[2]].kind = "file"
          /\ StrLess(last.out[ij[2]].name, last.out[ij[1]].name)

(***************************************************************************)
(* C11.  build_tree with depth cap max_depth emits no line for an entry    *)
(* more than max_depth levels below the root; a listed directory exactly   *)
(* max_depth levels below the root gets its own line followed by exactly   *)
(* one truncation line, and its contents are not read: the tree is the     *)
(* tree of the directory cut off below that level; and the rendering ends  *)
(* with a tree that has at most two lines per entry.                       *)
(***************************************************************************)
\* The directory with everything more than n levels below the root removed.
CutBelow(f, n) == [p \in {q \in DOMAIN f : Len(q) <= n} |-> f[p]]

C11_DepthCap ==
    last.op = "build_tree" =>
        LET tree == last.out
            lp == LinePaths(last.out)
            max_depth == last.arg
        IN /\ \A i \in DOMAIN tree :
                lp[i].kind \in {"dir", "file"} => Len(lp[i].path) <= max_depth
           /\ \A i \in DOMAIN tree :
                (lp[i].kind = "dir" /\ Len(lp[i].path) = max_depth) =>
                    /\ i < Len(tree)
                    /\ tree[i + 1].kind = "trunc"
                    /\ i + 2 <= Len(tree) => tree[i + 2].kind # "trunc"
           /\ \A i \in DOMAIN tree :
                tree[i].kind = "trunc" =>
                    /\ i > 1
                    /\ lp[i - 1].kind \in {"dir", "root"}
                    /\ Len(lp[i - 1].path) = max_depth
           /\ \A d \in DOMAIN fs :
                (fs[d].kind = "dir" /\ Len(d) = max_depth /\ ~Excluded(fs, d)) =>
                    d \in TreeEntryPaths(tree)
           /\ \A o \in OsOrders :
                build_tree(fs, o, Root, <<>>, TRUE, max_depth, 0)
                    = build_tree(CutBelow(fs, max_depth), o, Root, <<>>, TRUE,
                                 max_depth, 0)
           /\ Len(tree) <= 1 + 2 * Cardinality(DOMAIN fs)

\* A capped tree: a listed directory at the cap that holds a visible file.
C11_Witness ==
    /\ last.op = "build_tree"
    /\ \E i \in DOMAIN last.out : last.out[i].kind = "trunc"
    /\ \E p \in DOMAIN fs :
          /\ Len(p) = last.arg + 1
          /\ fs[p].kind = "file"
          /\ ~StartsWithDot(NameOf(p))
          /\ Parent(p) \in TreeEntryPaths(last.out)

(***************************************************************************)
(* C12.  The heading outline maps a style named 'Heading N' to level N,    *)
(* maps a style name that starts with 'Heading' but whose remainder is not *)
(* a parseable integer to level 1, and leaves out the headings whose text  *)
(* is empty or whitespace only.                                            *)
(***************************************************************************)
\* The level the statement gives a style name that starts with 'Heading':
\* the integer its remainder reads as, and 1 when it does not read as one.
C12_Level(name) ==
    LET remainder == SubSeq(name, Len(HeadingWord) + 1, Len(name))
    IN IF PyInt(remainder).ok THEN PyInt(remainder).value ELSE 1

C12_Outline(paragraphs) ==
    LET kept == SelectSeq(paragraphs,
                    LAMBDA p : /\ StartsWith(p.style, HeadingWord)
                               /\ \E i \in 1..Len(p.text) : p.text[i] # " ")
    IN [i \in 1..Len(kept) |->
            [level |-> C12_Level(kept[i].style), text |-> Strip(kept[i].text)]]

C12_HeadingLevels ==
    last.op = "analyze_word" => last.out = C12_Outline(last.arg)


\* a <= b for two byte counts given by their digits, no leading zero digit.
RECURSIVE CountLeq(_, _)
CountLeq(a, b) ==
    IF Len(a) # Len(b) THEN Len(a) < Len(b)
    ELSE IF a = <<>> THEN TRUE
    ELSE IF a[Len(a)] # b[Len(b)] THEN a[Len(a)] < b[Len(b)]
    ELSE CountLeq(SubSeq(a, 1, Len(a) - 1), SubSeq(b, 1, Len(b) - 1))

UnitIndex(u) == CHOOSE i \in 1..Len(units) : units[i] = u

\* C13: format_size gives exactly "0 B" for 0 and "1.5 KB" for 1536, prints
\* one decimal with one of the units B, KB, MB, GB, TB, and for byte counts
\* a <= b the unit of a is never larger than the unit of b.
C13_UnitsMonotone ==
    last.op = "format_size" =>
        /\ last.arg = ToDigits(0) => last.out = [whole |-> 0, tenth |-> -1, unit |-> "B"]
        /\ last.arg = ToDigits(1536) => last.out = [whole |-> 1, tenth |-> 5, unit |-> "KB"]
        /\ last.out.unit \in Range(units)
        /\ last.arg # ToDigits(0) => last.out.tenth \in 0..9
        /\ \A b \in SampleCounts :
              CountLeq(last.arg, b) =>
                  UnitIndex(last.out.unit) <= UnitIndex(format_size_digits(b).unit)

\* A count of more than 1024 TB has been formatted: the unit stays TB.
C13_Witness ==
    /\ last.op = "format_size"
    /\ Len(last.arg) = 6
    /\ last.out.unit = "TB"
    /\ last.out.whole >= 1024


\* The folder reports a call of analyze_folder_full returned.
C14_Reports ==
    {last.out.main_report}
    \cup {last.out.folder_reports[i].report : i \in 1..Len(last.out.folder_reports)}

\* C14: the report of a directory with no entry at all shows zero subfolders
\* and zero files in its summary and has no subfolder list, no file listing
\* table and no category section.
C14_EmptyDirectoryReport ==
    last.op = "analyze_folder_full" =>
        \A report \in C14_Reports :
            Children(fs, report.folder) = {} =>
                /\ report.subdir_count = 0
                /\ report.total_files = 0
                /\ report.headings = <<"summary">>
                /\ report.subdirs = <<>>
                /\ report.files = <<>>
                /\ \A c \in DOMAIN report.sections : report.sections[c] = <<>>

\* The report of an empty root directory has been produced.
C14_Witness ==
    /\ last.op = "analyze_folder_full"
    /\ Children(fs, Root) = {}
    /\ last.out.main_report.folder = Root


\* The capability flag of the format of a document, and the library the flag
\* stands for.
OwnFlag(name) ==
    IF Lower(Suffix(name)) = <<".","x","l","s">> THEN "HAS_XLRD"
    ELSE IF Lower(Suffix(name)) = <<".","d","o","c","x">> THEN "HAS_DOCX"
    ELSE IF Lower(Suffix(name)) = <<".","p","d","f">> THEN "HAS_PDF"
    ELSE "HAS_OPENPYXL"

LibraryOf ==
    [HAS_OPENPYXL |-> "openpyxl", HAS_XLRD |-> "xlrd", HAS_DOCX |-> "python-docx",
     HAS_PDF |-> "pdfplumber"]

\* The entries of the document sections of a report.
SectionEntriesOf(out) ==
    UNION {Range(out.analyses[c]) : c \in DOMAIN out.analyses}

\* What a change of the flags may change: nothing if the report is not
\* returned, else at most the entries of documents whose own flag changed.
C15_SameBut(out, other, flags, otherflags) ==
    /\ other.raised = out.raised
    /\ ~out.raised =>
          /\ other.report = out.report
          /\ \A c \in DOMAIN out.analyses :
                /\ Len(other.analyses[c]) = Len(out.analyses[c])
                /\ \A i \in 1..Len(out.analyses[c]) :
                      otherflags[OwnFlag(out.analyses[c][i].name)]
                          = flags[OwnFlag(out.analyses[c][i].name)]
                      => other.analyses[c][i] = out.analyses[c][i]

\* C15: a document whose format's capability flag is false gets a placeholder
\* that names the missing library, without the file being opened and without
\* an exception; the report keeps its summary, its file listing and a section
\* entry for every document; what is reported for a document depends on no
\* flag but the one of its own format.
C15_MissingLibrary ==
    last.op = "generate_folder_report" =>
        /\ ~last.out.raised =>
              /\ \A e \in SectionEntriesOf(last.out) :
                    IF last.arg.flags[OwnFlag(e.name)]
                    THEN e.analysis.kind # "placeholder"
                    ELSE e.analysis = [kind |-> "placeholder",
                                       detail |-> LibraryOf[OwnFlag(e.name)],
                                       opened |-> FALSE]
              /\ {e.name : e \in SectionEntriesOf(last.out)} = {NameOf(p) : p \in DOMAIN fs}
              /\ last.out.report.total_files = Cardinality(DOMAIN fs)
              /\ {last.out.report.files[i].name : i \in 1..Len(last.out.report.files)}
                    = {NameOf(p) : p \in DOMAIN fs}
              /\ last.out.report.headings[1] = "summary"
        /\ \A base \in {generate_folder_report(fs, last.arg.o, Root)} :
              \A otherflags \in [LibraryFlags -> BOOLEAN] :
                  C15_SameBut(last.out,
                              AnalysedReportOf(base, otherflags, last.arg.condition),
                              last.arg.flags, otherflags)

\* A report with a placeholder for one workbook next to the analysis of a
\* workbook of the other Excel format and of a PDF.
C15_Witness ==
    /\ last.op = "generate_folder_report"
    /\ ~last.out.raised
    /\ ~last.arg.flags["HAS_OPENPYXL"]
    /\ \E e \in SectionEntriesOf(last.out) :
          e.name = <<"a",".","x","l","s","x">> /\ e.analysis.kind = "placeholder"
    /\ \E e \in SectionEntriesOf(last.out) :
          e.name = <<"b",".","x","l","s">> /\ e.analysis.kind = "analysis"
    /\ \E e \in SectionEntriesOf(last.out) :
          e.name = <<"d",".","p","d","f">> /\ e.analysis.kind = "analysis"


\* C16: whatever fails on one document (opening it, parsing it, reading its
\* size), generate_folder_report returns a report that has an inline error
\* line for that document and the complete entry of every other document.
C16_ErrorsStayLocal ==
    last.op = "generate_folder_report" =>
        /\ ~last.out.raised
        /\ \A p \in DOMAIN fs :
              \E e \in SectionEntriesOf(last.out) :
                  /\ e.name = NameOf(p)
                  /\ last.arg.flags[OwnFlag(e.name)] =>
                        e.analysis.kind =
                            (IF last.arg.condition[p] = "ok" THEN "analysis" ELSE "error")


\* The pages of the analysed PDF whose extraction works.
C17_Good == {i \in 1..Len(last.arg) : ~last.arg[i].fails}

C17_Sum(field) ==
    SumSeq([i \in 1..Len(last.arg) |->
               IF i \in C17_Good THEN last.arg[i][field] ELSE 0])

\* C17: a page whose extraction fails costs the report that page only: the
\* detail line of every other page, the totals of tables and images, the
\* sampled tables, the total word count and the preview of the other pages
\* are all in the report.
C17_PageFailureLocal ==
    last.op = "analyze_pdf" =>
        /\ \A i \in C17_Good :
              [kind |-> "page", page |-> i, words |-> last.arg[i].words,
               tables |-> last.arg[i].tables, images |-> last.arg[i].images]
                  \in Range(last.out)
        /\ [kind |-> "total_tables", count |-> C17_Sum("tables")] \in Range(last.out)
        /\ [kind |-> "total_images", count |-> C17_Sum("images")] \in Range(last.out)
        /\ [kind |-> "total_words", count |-> C17_Sum("words")] \in Range(last.out)
        /\ \A i \in C17_Good :
              last.arg[i].tables > 0 =>
                  [kind |-> "table", page |-> i, table |-> 1] \in Range(last.out)
        /\ C17_Sum("words") > 0 => [kind |-> "preview"] \in Range(last.out)


\* The body of the report of a folder, as it is held in memory and written.
BodyOf(folder) == [by |-> "report", of |-> folder]

\* The folders of the finished run in ascending order of their paths.
AnalyzedInPathOrder ==
    [i \in 1..Len(last.out.folder_reports) |->
        SortedByFolderPath(last.out.folder_reports)[i].folder_path]

\* No two analyzed folders were given the same name in the report folder.
DistinctArtifactNames ==
    \A i, j \in 1..Len(last.out.folder_reports) :
        last.out.folder_reports[i].report_filename
            = last.out.folder_reports[j].report_filename => i = j

\* C18: when writing one of the artifacts fails (a folder's _KLASOR_RAPORU.md,
\* its copy in the report folder, ANA_RAPOR.md, PROJE_ANALIZ_RAPORU.md), the
\* run warns and runs to completion, and the master content holds the report
\* body of every analyzed folder of this run.  Stated for runs in which the
\* names in the report folder are distinct.
C18_Attempted ==
    {Append(last.out.folder_reports[i].folder_path, RAPOR_DOSYA_ADI) :
        i \in 1..Len(last.out.folder_reports)}
    \cup {<<RAPOR_KLASOR_ADI, last.out.folder_reports[i].report_filename>> :
             i \in 1..Len(last.out.folder_reports)}
    \cup {<<RAPOR_KLASOR_ADI, ANA_RAPOR>>, <<PROJE_ANALIZ_RAPORU>>}

C18_WriteFailureNotFatal ==
    (/\ last.op = "run_analysis"
     /\ last.arg.target = "dir"
     /\ last.arg.unwritable \cap C18_Attempted # {}
     /\ DistinctArtifactNames) =>
        /\ ~last.out.raised
        /\ Range(last.out.warnings) = last.arg.unwritable \cap C18_Attempted
        /\ last.out.bodies = [i \in 1..Len(AnalyzedInPathOrder) |->
                                 BodyOf(AnalyzedInPathOrder[i])]


\* C19: after a run without failed writes the report folder holds one copy
\* per analyzed folder, each with that folder's report body, no two folders
\* share the name of their copy, and the master content holds each folder's
\* body exactly once, in ascending order of the folder paths.
C19_OneCopyPerFolder ==
    (/\ last.op = "run_analysis"
     /\ last.arg.target = "dir"
     /\ last.arg.unwritable = {}) =>
        /\ DistinctArtifactNames
        /\ \A i \in 1..Len(last.out.folder_reports) :
              LET copy == <<RAPOR_KLASOR_ADI, last.out.folder_reports[i].report_filename>>
              IN /\ copy \in DOMAIN fs
                 /\ fs[copy].content = BodyOf(last.out.folder_reports[i].folder_path)
        /\ last.out.bodies = [i \in 1..Len(AnalyzedInPathOrder) |->
                                 BodyOf(AnalyzedInPathOrder[i])]


LockedAsEmpty(f) ==
    [p \in {q \in DOMAIN f : Reachable(f, Root, q)} |->
        IF f[p].kind = "locked"
        THEN [kind |-> "dir", size |-> 0, content |-> [by |-> "dir", of |-> <<>>]]
        ELSE f[p]]

C21_Locked == {d \in DOMAIN fs : fs[d].kind = "locked"}

\* C21: a folder that may not be listed never aborts a traversal.  build_tree
\* gives the folder its own line, nothing below it, and the lines of all
\* other entries as if the folder were empty; categorize_files gives seven
\* empty lists for it; the folder report of its parent is the report the
\* parent has with the folder empty.
C21_PermissionFailureLocal ==
    /\ last.op = "build_tree" =>
          /\ \A o \in OsOrders :
                build_tree(fs, o, Root, <<>>, TRUE, last.arg, 0)
                    = build_tree(LockedAsEmpty(fs), o, Root, <<>>, TRUE, last.arg, 0)
          /\ \A d \in C21_Locked :
                /\ d \in TreeEntryPaths(last.out)
                /\ \A p \in TreeEntryPaths(last.out) : ~IsBelow(p, d)
                /\ \A p \in Children(fs, Parent(d)) : p \in TreeEntryPaths(last.out)
    /\ (last.op = "categorize_files" /\ last.arg \in C21_Locked) =>
          \A c \in DOMAIN last.out : last.out[c] = <<>>
    /\ last.op = "analyze_folder_full" =>
          /\ \A o \in OsOrders :
                generate_folder_report(fs, o, Root)
                    = generate_folder_report(LockedAsEmpty(fs), o, Root)
          /\ \A d \in C21_Locked :
                \E i \in 1..Len(last.out.main_report.subdirs) :
                    last.out.main_report.subdirs[i]
                        = [name |-> NameOf(d), sub_file_count |-> 0]

\* The tree of a directory has been built in which the locked folder holds a
\* file and has a folder before it and a folder after it.
C21_Witness ==
    /\ last.op = "build_tree"
    /\ C21_Locked # {}
    /\ \E d \in C21_Locked : \E p \in DOMAIN fs : IsBelow(p, d) /\ fs[p].kind = "file"
    /\ <<<<"l","i","b">>>> \in TreeEntryPaths(last.out)
    /\ <<<<"t","o","p">>, LockFile>> \in TreeEntryPaths(last.out)


LinesOf(report, kind) == SelectSeq(report, LAMBDA line : line.kind = kind)

\* The first k elements of a sequence, all of it when it is shorter.
FirstOf(s, k) == SubSeq(s, 1, Least(Len(s), k))

C22_Rows(fms) ==
    [k \in DOMAIN fms |-> [kind |-> "formula", cell |-> fms[k][1], formula |-> fms[k][2]]]

C22_DependencyRows(deps) ==
    [k \in DOMAIN deps |-> [kind |-> "dependency", cell |-> deps[k].cell,
                            deps |-> deps[k].refs]]

C22_Capped(report, fms, deps) ==
    /\ LinesOf(report, "formula") = FirstOf(C22_Rows(fms), 30)
    /\ Len(LinesOf(report, "formula")) = Least(Len(fms), 30)
    /\ fms # <<>> =>
          /\ LinesOf(report, "formula_count")
                = <<[kind |-> "formula_count", n |-> Len(fms)]>>
          /\ \A line \in Range(LinesOf(report, "formula_summary")) :
                line.total = Len(fms) /\ line.shown = Len(LinesOf(report, "formula"))
    /\ LinesOf(report, "formula_more")
          = IF Len(fms) > 30 THEN <<[kind |-> "formula_more", n |-> Len(fms) - 30]>>
            ELSE <<>>
    /\ LinesOf(report, "dependency") = FirstOf(C22_DependencyRows(deps), 20)
    /\ Len(LinesOf(report, "dependency")) = Least(Len(deps), 20)
    /\ deps # <<>> =>
          LinesOf(report, "dependency_summary")
             = <<[kind |-> "dependency_summary",
                  shown |-> Len(LinesOf(report, "dependency")), total |-> Len(deps)]>>
    /\ LinesOf(report, "dependency_more")
          = IF Len(deps) > 20
            THEN <<[kind |-> "dependency_more", n |-> Len(deps) - 20]>>
            ELSE <<>>

\* C22: of the n formulas collected on a sheet and the d cells with a recorded
\* dependency, the first min(n, 30) and min(d, 20) in scan order are shown,
\* the totals printed are n and d, and the remainder line says n - 30 or
\* d - 20 when rows were left out.
C22_DisplayCaps ==
    last.op = "analyze_excel" =>
        \A fms \in {SheetFormulas(ScannedCells(last.arg))} :
            C22_Capped(last.out, fms, SheetDependencies(fms))

\* A sheet with more than 30 formulas, more than 20 of them with a
\* dependency but not all, has been reported.
C22_Witness ==
    /\ last.op = "analyze_excel"
    /\ Len(LinesOf(last.out, "formula")) = 30
    /\ Len(LinesOf(last.out, "dependency")) = 20
    /\ \E line \in Range(LinesOf(last.out, "dependency_more")) :
          \E more \in Range(LinesOf(last.out, "formula_more")) : line.n < more.n


\* The first-row cells of the first k columns of the used range that are not
\* empty.
C23_FirstRow(sheet, k) ==
    SelectSeq([j \in 1..k |-> SheetValue(sheet, sheet.min_row, sheet.min_col + j - 1)],
              LAMBDA v : v # None)

\* C23: of a sheet whose used range has N columns, the headers listed are the
\* first-row cells of the first min(N, 50) columns of the used range that
\* are not empty.
C23_HeaderCoverage ==
    last.op = "analyze_excel" =>
        LinesOf(last.out, "headers")
            = HeaderLine(C23_FirstRow(last.arg,
                                      Least(last.arg.max_col - last.arg.min_col + 1, 50)))

\* The table of sample data, when one is rendered.
C24_Table(report) ==
    LinesOf(report, "sample_header") \o LinesOf(report, "sample_row")

\* C24: the sample table has at most 5 rows and at most 15 columns, no row
\* or column of it lies outside the used range, and its header row is the
\* first sampled row.
C24_SampleInsideUsedRange ==
    (last.op = "analyze_excel" /\ C24_Table(last.out) # <<>>) =>
        /\ Len(C24_Table(last.out)) <= 5
        /\ \A line \in Range(C24_Table(last.out)) : Len(line.cells) <= 15
        /\ Range(SampleRowNumbers(last.arg)) \subseteq last.arg.min_row..last.arg.max_row
        /\ Range(SampleColumnNumbers(last.arg)) \subseteq last.arg.min_col..last.arg.max_col
        /\ \A line \in Range(LinesOf(last.out, "sample_header")) :
              line.cells = [j \in DOMAIN line.cells |->
                               SampleCell(SheetValue(last.arg, last.arg.min_row,
                                                     last.arg.min_col + j - 1))]


\* The lines of the table at position i in the report: those from its title
\* line up to the line before the next title or the note of further tables.
C25_Start(report, i) ==
    CHOOSE k \in DOMAIN report : report[k].kind = "table" /\ report[k].index = i

C25_Block(report, i) ==
    LET start == C25_Start(report, i)
        ends == {k \in (start + 1)..Len(report) :
                    report[k].kind \in {"table", "more_tables"}}
    IN SubSeq(report, start,
              IF ends = {} THEN Len(report)
              ELSE (CHOOSE k \in ends : \A m \in ends : k <= m) - 1)

C25_Rendered(block, rows) ==
    /\ LinesOf(block, "table_header")
          = <<[kind |-> "table_header", cells |-> TableCells(rows[1])]>>
    /\ \A j \in DOMAIN rows[1] :
          /\ Len(TableCells(rows[1])[j]) <= 30
          /\ TableCells(rows[1])[j] = SubSeq(Strip(rows[1][j]), 1, Len(TableCells(rows[1])[j]))
    /\ LinesOf(block, "table_row")
          = [k \in 1..(Least(Len(rows), 4) - 1) |->
                [kind |-> "table_row", cells |-> TableCells(rows[k + 1])]]
    /\ LinesOf(block, "table_more_rows")
          = IF Len(rows) > 4
            THEN <<[kind |-> "table_more_rows", n |-> Len(rows) - 4]>> ELSE <<>>

\* C25: each of the first min(T, 10) tables of a document is rendered as the
\* header row of its first row and at most 3 data rows, the cells cut to 30
\* characters, with the note of R - 4 rows left when it has R > 4 rows, also
\* when the cells of its first row are all empty; T - 10 tables left are
\* noted when T > 10.
C25_TablesRendered ==
    last.op = "analyze_word_tables" =>
        /\ Len(LinesOf(last.out, "table")) = Least(Len(last.arg), 10)
        /\ \A i \in 1..Least(Len(last.arg), 10) :
              last.arg[i].rows # <<>> =>
                  C25_Rendered(C25_Block(last.out, i), last.arg[i].rows)
        /\ LinesOf(last.out, "more_tables")
              = IF Len(last.arg) > 10
                THEN <<[kind |-> "more_tables", n |-> Len(last.arg) - 10]>> ELSE <<>>


C26_Read(pages) == Least(Len(pages), 50)

\* C26: of a PDF with P pages the report gives the page count P, a detail
\* line for each of the first min(P, 10) pages and for no other, and the
\* totals of tables, images and words over the first min(P, 50) pages; the
\* pages after those are not read, so that nothing but the page count
\* depends on them.
C26_PageCaps ==
    last.op = "analyze_pdf" =>
        /\ last.out[1] = [kind |-> "page_count", count |-> Len(last.arg)]
        /\ LinesOf(last.out, "page")
              = [i \in 1..Least(Len(last.arg), 10) |->
                    [kind |-> "page", page |-> i, words |-> last.arg[i].words,
                     tables |-> last.arg[i].tables, images |-> last.arg[i].images]]
        /\ LinesOf(last.out, "total_tables")
              = <<[kind |-> "total_tables",
                   count |-> SumSeq([i \in 1..C26_Read(last.arg) |-> last.arg[i].tables])]>>
        /\ LinesOf(last.out, "total_images")
              = <<[kind |-> "total_images",
                   count |-> SumSeq([i \in 1..C26_Read(last.arg) |-> last.arg[i].images])]>>
        /\ LinesOf(last.out, "total_words")
              = <<[kind |-> "total_words",
                   count |-> SumSeq([i \in 1..C26_Read(last.arg) |-> last.arg[i].words])]>>
        /\ Tail(last.out)
              = Tail(analyze_pdf_pages(SubSeq(last.arg, 1, C26_Read(last.arg))))


\* The first 5 lines of the file that are not empty and are not shebang
\* lines.
C27_Candidates(lines) ==
    FirstOf(SelectSeq([k \in DOMAIN lines |-> Strip(lines[k])],
                      LAMBDA line : line # <<>> /\ ~StartsWith(line, <<"#","!">>)),
            5)

C27_Commented(lines) ==
    {k \in DOMAIN C27_Candidates(lines) : StartsWithToken(C27_Candidates(lines)[k])}

\* C27: the description of a code file is the first of its first 5 non-empty
\* lines that are not shebang lines which starts with a comment token, cut
\* to 80 characters; there is none only if none of the 5 starts with one.
C27_FirstCommentLine ==
    last.op = "code_description" =>
        /\ C27_Commented(last.arg) = {} <=> last.out = NoDescription
        /\ \A k \in C27_Commented(last.arg) :
              (\A m \in C27_Commented(last.arg) : k <= m) =>
                  last.out = FirstOf(C27_Candidates(last.arg)[k], 80)


\* The category a glyph stands for.
GlyphCategory ==
    [chart |-> "excel", memo |-> "word", book |-> "pdf", frame |-> "image",
     laptop |-> "code", package |-> "archive", clapper |-> "video", note |-> "audio",
     page |-> "other"]

CategorySets ==
    <<EXCEL_EXTENSIONS \cup EXCEL_OLD_EXTENSIONS, WORD_EXTENSIONS, PDF_EXTENSIONS,
      CODE_EXTENSIONS, IMAGE_EXTENSIONS, ARCHIVE_EXTENSIONS>>

PairwiseDisjoint(sets) ==
    \A i, j \in DOMAIN sets : i # j => sets[i] \cap sets[j] = {}

\* C28 as stated: the category, the label of the histogram and the category
\* of the glyph are the same for every extension; the sets of the categories
\* are pairwise disjoint; an extension of none of the sets is 'other' in all
\* three.
C28_ThreeClassifiersAgree ==
    last.op = "classify" =>
        /\ PairwiseDisjoint(CategorySets)
        /\ last.out.category = last.out.label
        /\ GlyphCategory[last.out.icon] = last.out.category
        /\ last.out.ext \notin KnownExtensions =>
              /\ last.out.category = "other"
              /\ last.out.label = "other"
              /\ last.out.icon = "page"

\* C28, amended: the category and the label of the histogram are the same
\* for every extension, and the glyph stands for that category for every
\* extension but the five video and five audio extensions, which are 'other'
\* for the two and have a glyph of their own; the sets of the categories are
\* pairwise disjoint, and an extension of no set at all is 'other' in all
\* three.
C28_AgreeButVideoAudio ==
    last.op = "classify" =>
        /\ PairwiseDisjoint(CategorySets)
        /\ last.out.category = last.out.label
        /\ last.out.ext \notin VIDEO_EXTENSIONS \cup AUDIO_EXTENSIONS =>
              GlyphCategory[last.out.icon] = last.out.category
        /\ last.out.ext \in VIDEO_EXTENSIONS =>
              last.out.category = "other" /\ last.out.icon = "clapper"
        /\ last.out.ext \in AUDIO_EXTENSIONS =>
              last.out.category = "other" /\ last.out.icon = "note"
        /\ last.out.ext \notin KnownExtensions \cup VIDEO_EXTENSIONS \cup AUDIO_EXTENSIONS =>
              /\ last.out.category = "other"
              /\ last.out.icon = "page"

\* The file A.MP4 has been classified: 'other' with the glyph of a video.
C28_Witness ==
    /\ last.op = "classify"
    /\ last.arg = <<"A",".","M","P","4">>
    /\ last.out.ext = <<".","m","p","4">>
    /\ last.out.category = "other"
    /\ last.out.icon = "clapper"


\* The extraction directory of the request as it is after the extraction
\* and the removal of __MACOSX.
C29_Tree ==
    WithoutMacosx(Extracted(ServerFs, TempDir \o <<ProjectName>>, last.arg.zip.members),
                  TempDir \o <<ProjectName>>)

C29_Top(kinds) ==
    {p \in Children(C29_Tree, TempDir \o <<ProjectName>>) : C29_Tree[p].kind \in kinds}

\* C29: when the top level of the extracted archive holds exactly one
\* directory and no file, that directory is analysed, otherwise the
\* extraction directory.
C29_SingleFolderDescent ==
    (last.op = "upload_folder" /\ last.out.status = 200) =>
        last.out.root
            = IF Cardinality(C29_Top({"dir"})) = 1 /\ C29_Top({"file"}) = {}
              THEN CHOOSE d \in C29_Top({"dir"}) : TRUE
              ELSE TempDir \o <<ProjectName>>

\* C30: whatever the names of the uploaded files, a file is written only
\* inside the temporary directory of the request, and when the request has
\* ended the temporary directory is removed: the file system is as it was
\* before the request.
C30_UploadsStayInTemp ==
    last.op = "upload_folder_files" =>
        /\ ~exists(fs, TempDir)
        /\ fs = ServerFs

=============================================================================
